---- MODULE Spec2Model ----
(***************************************************************************)
(* Event normalisation, conflict resolution and recommendation scoring of  *)
(* the CMU fitness buddy (src/combiner.py, src/recommendations.py).        *)
(*                                                                         *)
(* Time is counted in half hours since a Monday 00:00 UTC.  A missing      *)
(* timestamp is NaT, a missing string is None, a missing display string is *)
(* the empty tuple.  A raw table is the sequence of its rows; a table a     *)
(* cleaner returns is a record [columns, rows, raised], where raised says  *)
(* that the call ended in an exception instead of a table.                 *)
(***************************************************************************)
EXTENDS Integers, Sequences, FiniteSets, TLC

VARIABLES
    pc,            \* position of the caller: which call has returned
    now,           \* the clock: pd.Timestamp.now(tz='UTC')
    google_df,     \* raw calendar export
    web_df,        \* raw event-listing scrape
    cmu_df,        \* raw recurring-class scrape
    occurrences,   \* what generate_class_occurrences_optimized returned
    first_run,     \* the clock, the tables and the result of an earlier run
    preferences,   \* FitnessRecommender.preferences
    event_row,     \* the candidate given to calculate_fitness_score
    calendar_df,   \* the fixed commitments given to calculate_fitness_score
    score,         \* what calculate_fitness_score returned
    previous_call, \* the arguments and the result of the recommender call before
    fitness_df,    \* the candidates given to recommend_classes and suggest_optimal_schedule
    recommendations,   \* what recommend_classes returned
    optimal_schedule,  \* what suggest_optimal_schedule returned
    week_log,      \* per week: the rows its loop looked at and the classes it took
    insights_df,   \* the table given to get_schedule_insights, as the caller holds it
    insights,      \* what get_schedule_insights returned
    google_clean,  \* rows returned by clean_google_calendar_df
    web_clean,     \* rows returned by clean_webscraping_df
    cmu_clean,     \* rows returned by clean_cmu_scraper_df
    combined_df,   \* combiner.py:353, the sorted table handed to the resolver
    final_df,      \* combiner.py:356, the table the resolver returns
    timeline       \* combiner.py:359, the table standardize_and_combine returns

rawVars == <<google_df, web_df, cmu_df>>
cleanVars == <<google_clean, web_clean, cmu_clean>>
mergeVars == <<combined_df, final_df, timeline>>
auxVars == <<occurrences, first_run>>
scoreVars == <<preferences, event_row, calendar_df, score, previous_call>>
scheduleVars == <<fitness_df, recommendations, optimal_schedule, week_log, insights_df, insights>>
otherVars == <<now, rawVars, auxVars, cleanVars, mergeVars>>
vars == <<pc, now, rawVars, auxVars, cleanVars, mergeVars, scoreVars, scheduleVars>>

None == "None"

\* ------------------------------------------------------------------ bounds
MaxTime == 3       \* starts of the merger's records are 0..MaxTime
MaxRows == 3       \* rows of the three tables given to the merger, in all
MaxDay == 14       \* term dates are the days 0..MaxDay
MaxTable == 2      \* rows of a raw table given to a cleaner
MaxCalendar == 2   \* fixed commitments given to the scorer
MaxCandidates == 3 \* candidates given to the recommender
MaxTopN == 2       \* top_n of recommend_classes is 0..MaxTopN

\* ------------------------------------------------------- program constants
Hour == 2          \* timedelta(hours=1), in half hours
Day == 24 * Hour
EST == 5 * Hour    \* US/Eastern standard time is UTC-5
EDT == 4 * Hour    \* US/Eastern daylight time is UTC-4
\* The model's calendar starts on a Monday and springs forward on its first
\* Sunday: the local hour 02:00-03:00 of that day does not exist.
SpringForwardDay == 6
SpringForwardLocal == SpringForwardDay * Day + 2 * Hour

\* A timestamp that is missing (pd.NaT); no instant of the model is this early.
NaT == 0 - Day * Day

\* A column that the row does not have (row.get falls back to its default).
Absent == NaT - 1

\* pd.isna / pd.notna of a timestamp
isna(x) == x = NaT
notna(x) == x # NaT

\* Timestamp comparison: any comparison with NaT is False
Before(a, b) == notna(a) /\ notna(b) /\ a < b

\* ----------------------------------------------------------------- sorting
\* DataFrame.sort_values('start'): ascending, NaT last; ties keep their order
\* (numpy sorts the short arrays of this model by insertion).
RECURSIVE InsertByStart(_, _)
InsertByStart(sorted, r) ==
    IF sorted = <<>> THEN <<r>>
    ELSE LET last == sorted[Len(sorted)]
         IN IF notna(r.start) /\ (isna(last.start) \/ r.start < last.start)
               THEN Append(InsertByStart(SubSeq(sorted, 1, Len(sorted) - 1), r), last)
               ELSE Append(sorted, r)

\* A merger that forgets to sort.
sort_values_skipped(rows) == rows

RECURSIVE sort_values(_)
sort_values(rows) ==
    IF rows = <<>> THEN <<>>
    ELSE InsertByStart(sort_values(SubSeq(rows, 1, Len(rows) - 1)), rows[Len(rows)])

\* ------------------------------------------------------------------ tables
CalendarColumns == {"start", "end", "calendar_event", "description", "location", "url"}
ScrapedColumns == {"start", "end", "scraped_event", "description", "location", "url"}

Frame(columns, rows) == [columns |-> columns, rows |-> rows, raised |-> FALSE]
Raised == [columns |-> {}, rows |-> <<>>, raised |-> TRUE]

\* An empty table without columns: pd.DataFrame()
BareFrame(columns) == Frame({}, <<>>)

\* pd.DataFrame(columns=[...])
EmptyFrame(columns) == Frame(columns, <<>>)

\* ------------------------------------------------------ conflict resolution
\* end.fillna(start + timedelta(hours=1))
end_filled(r) == IF isna(r.end) THEN r.start + Hour ELSE r.end

\* An overlap test on the raw end column: a missing end compares False.
overlaps_raw_end(cal, scraped) ==
    /\ Before(cal.start, scraped.end)
    /\ Before(scraped.start, cal.end)

\* An overlap test that counts touching intervals as overlapping.
overlaps_inclusive(cal, scraped) ==
    /\ notna(cal.start) /\ cal.start <= end_filled(scraped)
    /\ notna(scraped.start) /\ scraped.start <= end_filled(cal)

\* (calendar.start < scraped.end_filled) & (scraped.start < calendar.end_filled)
overlaps(cal, scraped) ==
    /\ Before(cal.start, end_filled(scraped))
    /\ Before(scraped.start, end_filled(cal))

OverlapsAny(calendar_events, scraped) ==
    \E i \in 1..Len(calendar_events) : overlaps(calendar_events[i], scraped)

IsCalendar(r) == r.calendar_event # None
IsScraped(r) == r.scraped_event # None

\* A resolver that filters every record, fixed ones too, against the fixed
\* records before it.
remove_overlapping_any_kind(df) ==
    LET calendar_events == SelectSeq(df, IsCalendar)
        Clashes(i) == \E j \in 1..(i - 1) :
                         /\ IsCalendar(df[j])
                         /\ Before(df[j].start, end_filled(df[i]))
                         /\ Before(df[i].start, end_filled(df[j]))
        kept == {i \in 1..Len(df) : ~Clashes(i)}
        RECURSIVE Keep(_)
        Keep(i) == IF i = 0 THEN <<>>
                   ELSE IF i \in kept THEN Append(Keep(i - 1), df[i]) ELSE Keep(i - 1)
    IN IF calendar_events = <<>> THEN df ELSE Keep(Len(df))

\* A resolver that returns its working table as it is.
end_filled_kept(rows) == rows

\* calendar_events['end_filled'] = calendar_events['end'].fillna(start + 1 hour):
\* the filled end is one more column of the copy
with_end_filled(rows) ==
    [i \in 1..Len(rows) |-> [end_filled |-> end_filled(rows[i])] @@ rows[i]]

\* result_df.drop('end_filled', axis=1)
drop_end_filled(rows) ==
    [i \in 1..Len(rows) |->
        [f \in DOMAIN rows[i] \ {"end_filled"} |-> rows[i][f]]]

remove_overlapping_events_optimized(df) ==
    LET calendar_events == with_end_filled(SelectSeq(df, IsCalendar))
        scraped_events == with_end_filled(SelectSeq(df, IsScraped))
        NonOverlapping(s) == ~OverlapsAny(calendar_events, s)
        non_overlapping_scraped == SelectSeq(scraped_events, NonOverlapping)
    IN IF SelectSeq(df, IsCalendar) = <<>> THEN df
       ELSE IF SelectSeq(df, IsScraped) = <<>> THEN SelectSeq(df, IsCalendar)
       ELSE drop_end_filled(sort_values(calendar_events \o non_overlapping_scraped))

\* ------------------------------------------------------------- the merger
\* Timestamp.tz_convert('US/Eastern') of a UTC instant: Eastern standard time
\* before the spring-forward transition of the model's calendar, daylight
\* time from it on.
tz_convert_eastern(t) ==
    IF t < SpringForwardLocal + EST THEN t - EST ELSE t - EDT

\* The display string, kept as the Eastern wall-clock instants it prints.
create_time_range_display(start, end) ==
    IF isna(start) THEN <<>>
    ELSE IF isna(end) THEN <<tz_convert_eastern(start), NaT>>
    ELSE <<tz_convert_eastern(start), tz_convert_eastern(end)>>

\* cleaned['scraped_event'] = None / cleaned['calendar_event'] = None
TagCalendar(rows) == [i \in 1..Len(rows) |-> [rows[i] EXCEPT !.scraped_event = None]]
TagScraped(rows) == [i \in 1..Len(rows) |-> [rows[i] EXCEPT !.calendar_event = None]]

\* combined_df['time_range'] = combined_df.apply(create_time_range_display)
WithTimeRange(rows) ==
    [i \in 1..Len(rows) |->
        [rows[i] EXCEPT !.time_range = create_time_range_display(rows[i].start, rows[i].end)]]

HasTimeRange(r) == r.time_range # <<>>

\* combiner.py:338-353: concat, time ranges, dropna, sort by start
Combine(g, w, c) ==
    sort_values(SelectSeq(WithTimeRange(TagCalendar(g.rows) \o TagScraped(w.rows)
                                        \o TagScraped(c.rows)),
                          HasTimeRange))

\* final_df[['time_range', 'scraped_event', 'calendar_event', ...]]
FinalColumns(rows) ==
    [i \in 1..Len(rows) |->
        [time_range |-> rows[i].time_range,
         scraped_event |-> rows[i].scraped_event,
         calendar_event |-> rows[i].calendar_event]]

\* ------------------------------------------------------ recurrence expander
\* combiner.py:207
weekday_map == [Mon |-> 0, Tue |-> 1, Wed |-> 2, Thu |-> 3, Fri |-> 4, Sat |-> 5, Sun |-> 6]

\* date.weekday() of a day of the model's calendar, whose day 0 is a Monday
date_weekday(d) == d % 7

\* The time-of-day texts of the model and what pd.to_datetime reads in them,
\* in half hours after midnight; any other text is not a time.
parse_time(text) ==
    CASE text = "02:30" -> 5
      [] text = "09:00" -> 18
      [] text = "10:00" -> 20
      [] OTHER -> NaT

\* pd.to_datetime(f"{date} {time}", errors='coerce'): a naive local instant
to_datetime_local(date, text) ==
    IF isna(parse_time(text)) THEN NaT ELSE date * Day + parse_time(text)

\* Timestamp.tz_localize('US/Eastern') raises for a local time that the
\* spring-forward transition skips.
Nonexistent(local) == SpringForwardLocal <= local /\ local < SpringForwardLocal + Hour

\* tz_localize('US/Eastern').tz_convert('UTC') of a local time that exists
tz_localize_eastern(local) ==
    IF local < SpringForwardLocal THEN local + EST ELSE local + EDT

\* The weekly loop, combiner.py:269-290, from current_date on.  A step whose
\* texts do not parse is skipped; a step whose localisation raises ends the
\* loop with the exception.
RECURSIVE WeeklyLoop(_, _, _)
WeeklyLoop(row, current_date, term_end) ==
    IF current_date > term_end THEN [raised |-> FALSE, list |-> <<>>]
    ELSE LET start_datetime == to_datetime_local(current_date, row.start_time_local)
             end_datetime == to_datetime_local(current_date, row.end_time_local)
             rest == WeeklyLoop(row, current_date + 7, term_end)
         IN IF notna(start_datetime) /\ notna(end_datetime)
               THEN IF Nonexistent(start_datetime) \/ Nonexistent(end_datetime) \/ rest.raised
                       THEN [raised |-> TRUE, list |-> <<>>]
                       ELSE [raised |-> FALSE,
                             list |-> <<[class_name |-> row.class_name,
                                         start |-> tz_localize_eastern(start_datetime),
                                         end |-> tz_localize_eastern(end_datetime),
                                         occurrence_date |-> current_date]>> \o rest.list]
               ELSE rest

\* try: ... except Exception: return []
Absorb(result) == [raised |-> FALSE, list |-> IF result.raised THEN <<>> ELSE result.list]

\* days_ahead = target_weekday - effective_start.weekday(); if < 0: += 7
days_ahead(target_weekday, effective_start) ==
    IF target_weekday - date_weekday(effective_start) < 0
       THEN target_weekday - date_weekday(effective_start) + 7
       ELSE target_weekday - date_weekday(effective_start)

\* An expander that looks the weekday up without checking it and outside the
\* try block: an unknown weekday raises KeyError.
generate_class_occurrences_unguarded(row) ==
    IF isna(row.term_start_date) \/ isna(row.term_end_date)
       THEN [raised |-> FALSE, list |-> <<>>]
    ELSE IF row.weekday \notin DOMAIN weekday_map
       THEN [raised |-> TRUE, list |-> <<>>]
    ELSE Absorb(WeeklyLoop(row,
                           row.term_start_date
                               + days_ahead(weekday_map[row.weekday], row.term_start_date),
                           row.term_end_date))

generate_class_occurrences_optimized(row) ==
    IF isna(row.term_start_date) \/ isna(row.term_end_date)
       THEN [raised |-> FALSE, list |-> <<>>]
    ELSE IF row.weekday \notin DOMAIN weekday_map
       THEN [raised |-> FALSE, list |-> <<>>]
    ELSE Absorb(WeeklyLoop(row,
                           row.term_start_date
                               + days_ahead(weekday_map[row.weekday], row.term_start_date),
                           row.term_end_date))

\* --------------------------------------------------- recurring-class cleaner
\* for _, row in iterrows(): all_occurrences.extend(generate(row))
RECURSIVE AllOccurrences(_)
AllOccurrences(df) ==
    IF df = <<>> THEN [raised |-> FALSE, list |-> <<>>]
    ELSE LET head == generate_class_occurrences_optimized(df[1])
             tail == AllOccurrences(SubSeq(df, 2, Len(df)))
         IN IF head.raised \/ tail.raised
               THEN [raised |-> TRUE, list |-> <<>>]
               ELSE [raised |-> FALSE, list |-> head.list \o tail.list]

\* class_name.fillna('Untitled Class') and the canonical columns
CmuRecordOf(occ) ==
    [start |-> occ.start, end |-> occ.end, calendar_event |-> None,
     scraped_event |-> IF occ.class_name = None THEN "Untitled Class" ELSE occ.class_name,
     time_range |-> <<>>]

\* A cleaner that keeps past occurrences too.
future_only_skipped(rows, current_time) == rows

\* result_df[result_df['start'] >= current_time]
future_only(rows, current_time) ==
    LET Future(r) == r.start >= current_time IN SelectSeq(rows, Future)

clean_cmu_scraper_df(df, current_time) ==
    IF df = <<>> THEN EmptyFrame(ScrapedColumns)
    ELSE LET all_occurrences == AllOccurrences(df)
         IN IF all_occurrences.raised THEN Raised
            ELSE IF all_occurrences.list = <<>> THEN EmptyFrame(ScrapedColumns)
            ELSE Frame(ScrapedColumns,
                       future_only([i \in 1..Len(all_occurrences.list) |->
                                       CmuRecordOf(all_occurrences.list[i])],
                                   current_time))

\* ------------------------------------------------------ datetime normalizer
\* A date_time text is kept as its shape and the instants written in it:
\*   "iso"      one timestamp, first
\*   "arrow"    first -> second, each side a timestamp or unreadable (NaT)
\*   "natural"  "<Weekday>, <Month> <Day> . <first> - <second> <TZ>": first
\*              and second are the clock times written, as naive instants of
\*              the year of processing, and year tells whether the date part
\*              names no year ("none"), the year of processing ("current")
\*              or another one ("other")
\*   "junk"     any other text;  "nan"  a missing or empty value

\* "if str(datetime.now().year) not in date_clean: date_clean += ..."
year_appended(date_str) == date_str.year # "current"

\* pd.to_datetime(f"{date_clean} {time}", errors='coerce'): the naive instant
\* written; a date text that holds two years is not a date.
to_datetime_naive(date_str, clock) ==
    IF date_str.year = "other" /\ year_appended(date_str) THEN NaT ELSE clock

\* Timestamp.tz_localize('UTC') of a naive instant: the instant at which the
\* UTC clock shows it; NaT stays NaT.
tz_localize_utc(naive) == naive

parse_natural_language_datetime(date_str) ==
    <<tz_localize_utc(to_datetime_naive(date_str, date_str.first)),
      tz_localize_utc(to_datetime_naive(date_str, date_str.second))>>

parse_datetime_efficiently(date_str) ==
    IF date_str.shape = "nan" THEN <<NaT, NaT>>
    ELSE IF date_str.shape = "iso" /\ notna(date_str.first) THEN <<date_str.first, NaT>>
    ELSE IF date_str.shape = "arrow" THEN <<date_str.first, date_str.second>>
    ELSE IF date_str.shape = "natural" THEN parse_natural_language_datetime(date_str)
    ELSE <<NaT, NaT>>

\* ------------------------------------------------------ event-listing cleaner
WebRecordOf(row) ==
    [start |-> parse_datetime_efficiently(row.date_time)[1],
     end |-> parse_datetime_efficiently(row.date_time)[2],
     calendar_event |-> None,
     scraped_event |-> IF row.title = None THEN "Untitled Event" ELSE row.title,
     time_range |-> <<>>]

HasStart(r) == notna(r.start)

\* cleaned_df.dropna(subset=['start'])
dropna_start(rows) == SelectSeq(rows, HasStart)

clean_webscraping_df(df) ==
    IF df = <<>> THEN EmptyFrame(ScrapedColumns)
    ELSE Frame(ScrapedColumns, dropna_start([i \in 1..Len(df) |-> WebRecordOf(df[i])]))

\* ----------------------------------------------------------- calendar cleaner
\* A Start text is "timed" when it holds a time and an offset, else "date".
has_time(row) == row.Start.kind = "timed"

\* A calendar cleaner that keeps the Summary as it came.
GoogleRecordOf_summary_kept(row) ==
    [start |-> row.Start.t,
     end |-> row.End,
     calendar_event |-> row.Summary,
     scraped_event |-> None,
     time_range |-> <<>>]

GoogleRecordOf(row) ==
    [start |-> row.Start.t,
     end |-> row.End,
     calendar_event |-> IF row.Summary \in {None, ""} THEN "Untitled Event" ELSE row.Summary,
     scraped_event |-> None,
     time_range |-> <<>>]

clean_google_calendar_df(df) ==
    IF df = <<>> THEN EmptyFrame(CalendarColumns)
    ELSE LET timed == SelectSeq(df, has_time)
         IN Frame(CalendarColumns,
                  dropna_start([i \in 1..Len(timed) |-> GoogleRecordOf(timed[i])]))

\* ---------------------------------------------------------------- recommender
\* FitnessRecommender.__init__
DefaultPreferences ==
    [preferred_times |-> {"morning", "afternoon", "evening"},
     preferred_days |-> {"Monday", "Tuesday", "Wednesday", "Thursday", "Friday"},
     class_types |-> {},
     max_classes_per_week |-> 5,
     min_gap_hours |-> 1]

\* An argument is <<>> when it is not given (None) and <<v>> when it is v.
Given(arg) == arg # <<>>
TruthyList(arg) == Given(arg) /\ arg[1] # {}
TruthyNumber(arg) == Given(arg) /\ arg[1] # 0

\* FitnessRecommender.set_preferences: "if preferred_times:" and so on
set_preferences(prefs, args) ==
    [preferred_times |->
        IF TruthyList(args.preferred_times) THEN args.preferred_times[1] ELSE prefs.preferred_times,
     preferred_days |->
        IF TruthyList(args.preferred_days) THEN args.preferred_days[1] ELSE prefs.preferred_days,
     class_types |->
        IF TruthyList(args.class_types) THEN args.class_types[1] ELSE prefs.class_types,
     max_classes_per_week |->
        IF TruthyNumber(args.max_classes_per_week) THEN args.max_classes_per_week[1]
        ELSE prefs.max_classes_per_week,
     min_gap_hours |->
        IF TruthyNumber(args.min_gap_hours) THEN args.min_gap_hours[1] ELSE prefs.min_gap_hours]

\* FitnessRecommender.get_time_of_day
get_time_of_day(hour) ==
    IF 5 <= hour /\ hour < 12 THEN "morning"
    ELSE IF 12 <= hour /\ hour < 17 THEN "afternoon"
    ELSE IF 17 <= hour /\ hour < 22 THEN "evening"
    ELSE "night"

\* start_dt.hour and start_dt.strftime('%A')
hour_of(t) == (t \div Hour) % 24
day_name(t) ==
    LET d == (t \div Day) % 7
    IN CASE d = 0 -> "Monday" [] d = 1 -> "Tuesday" [] d = 2 -> "Wednesday"
         [] d = 3 -> "Thursday" [] d = 4 -> "Friday" [] d = 5 -> "Saturday"
         [] d = 6 -> "Sunday"

\* A comparison of the texts as they are written.
lower_skipped(text) == text

\* str.lower() of the titles and keywords of the model
lower(text) ==
    CASE text = "Yoga Flow" -> "yoga flow"
      [] text = "YOGA" -> "yoga"
      [] OTHER -> text

\* "keyword in name" for the lower-case texts of the model
substring_of(keyword, name) ==
    \/ keyword = name
    \/ keyword = "yoga" /\ name = "yoga flow"

\* event_row.get('end', event_start + timedelta(hours=1))
event_end_of(row) == IF row.end = Absent THEN row.start + Hour ELSE row.end

\* cal_event.get('start') and .get('end') are both there, and the intervals overlap
Conflicts(row, cal_event) ==
    /\ notna(cal_event.start) /\ notna(cal_event.end)
    /\ Before(row.start, cal_event.end)
    /\ Before(cal_event.start, event_end_of(row))

\* A scorer that notes whether there is a conflict instead of counting them.
conflict_flag(row, cal) == IF \E i \in 1..Len(cal) : Conflicts(row, cal[i]) THEN 1 ELSE 0

\* conflicts, recommendations.py:72-82
ConflictCount(row, cal) == Cardinality({i \in 1..Len(cal) : Conflicts(row, cal[i])})

\* A time check that pays only when the day-part is the one preferred.
time_points_sole(time_of_day, prefs) ==
    IF prefs.preferred_times = {time_of_day} THEN 40 ELSE 0

\* "if time_of_day in self.preferences['preferred_times']: score += 40"
time_points(time_of_day, prefs) ==
    IF time_of_day \in prefs.preferred_times THEN 40 ELSE 0

\* "conflicts * 50", recommendations.py:84
conflict_penalty(row, cal) == 50 * ConflictCount(row, cal)

\* "if conflicts == 0: score += 20", inside the branch taken when the calendar
\* is not empty, recommendations.py:66-86
no_conflict_bonus(row, cal) ==
    IF cal # <<>> /\ ConflictCount(row, cal) = 0 THEN 20 ELSE 0

\* The class-type filter, recommendations.py:88-94
class_type_points(row, prefs) ==
    LET event_name == lower(row.scraped_event)
    IN IF prefs.class_types # {}
          THEN (IF \E k \in prefs.class_types : substring_of(lower(k), event_name)
                   THEN 20 ELSE 0)
          ELSE 10

\* The points that do not depend on the calendar, recommendations.py:57-64
\* and 88-103
preference_points(row, prefs) ==
    LET time_of_day == get_time_of_day(hour_of(row.start))
        day == day_name(row.start)
    IN time_points(time_of_day, prefs)
       + (IF day \in prefs.preferred_days THEN 30 ELSE 0)
       + class_type_points(row, prefs)
       + (IF time_of_day = "morning" THEN 10 ELSE 0)
       + (IF day \in {"Monday", "Tuesday", "Wednesday", "Thursday", "Friday"} THEN 5 ELSE 0)

\* The score before "return max(0, score)", recommendations.py:47-105
RawScore(row, cal, prefs) ==
    preference_points(row, prefs) + no_conflict_bonus(row, cal) - conflict_penalty(row, cal)

\* A scorer that returns the score as counted.
unfloored(x) == x

\* max(0, score)
floored(x) == IF x < 0 THEN 0 ELSE x

\* FitnessRecommender.calculate_fitness_score
calculate_fitness_score(row, cal, prefs) ==
    IF "start" \notin DOMAIN row \/ isna(row.start) THEN 0
    ELSE floored(RawScore(row, cal, prefs))

\* --------------------------------------------------------------- ranking
\* fitness_df['recommendation_score'] = scores, on a copy that keeps the index
WithScores(df, cal, prefs) ==
    [i \in 1..Len(df) |->
        [index |-> i,
         start |-> df[i].start,
         end |-> df[i].end,
         scraped_event |-> df[i].scraped_event,
         recommendation_score |-> calculate_fitness_score(df[i], cal, prefs)]]

\* fitness_df[fitness_df['recommendation_score'] > 0]
PositiveScore(r) == r.recommendation_score > 0

RECURSIVE InsertByScore(_, _)
InsertByScore(sorted, r) ==
    IF sorted = <<>> THEN <<r>>
    ELSE LET last == sorted[Len(sorted)]
         IN IF r.recommendation_score > last.recommendation_score
               THEN Append(InsertByScore(SubSeq(sorted, 1, Len(sorted) - 1), r), last)
               ELSE Append(sorted, r)

\* A ranking that forgets to sort.
sort_by_score_skipped(rows) == rows

\* sort_values('recommendation_score', ascending=False); equal scores keep
\* their order
RECURSIVE sort_by_score(_)
sort_by_score(rows) ==
    IF rows = <<>> THEN <<>>
    ELSE InsertByScore(sort_by_score(SubSeq(rows, 1, Len(rows) - 1)), rows[Len(rows)])

\* DataFrame.head(n) for n >= 0
head(rows, n) == SubSeq(rows, 1, IF n < Len(rows) THEN n ELSE Len(rows))

\* FitnessRecommender.recommend_classes
recommend_classes(df, cal, top_n, prefs) ==
    IF df = <<>> THEN <<>>
    ELSE head(sort_by_score(SelectSeq(WithScores(df, cal, prefs), PositiveScore)), top_n)

\* ------------------------------------------------------------ scheduling
\* top_n=50 of the call in suggest_optimal_schedule
ScheduleTopN == 50

\* start_dt.dt.isocalendar().week: the week of the year, Monday first
isocalendar_week(t) == ((t \div (7 * Day)) % 52) + 1

\* recommendations['start_dt'], ['week'] and ['day']
WithWeekAndDay(rows) ==
    [i \in 1..Len(rows) |->
        [index |-> rows[i].index,
         start |-> rows[i].start,
         end |-> rows[i].end,
         scraped_event |-> rows[i].scraped_event,
         recommendation_score |-> rows[i].recommendation_score,
         start_dt |-> rows[i].start,
         week |-> isocalendar_week(rows[i].start),
         day |-> day_name(rows[i].start)]]

\* f"{class_row.get('scraped_event', '')}_{class_row.get('start', '')}": the
\* title and the printed start, which has no "_" in it
class_id(class_row) == <<class_row.scraped_event, class_row.start>>

\* existing.get('end', existing_start + timedelta(hours=1))
existing_end_of(existing) ==
    IF existing.end = Absent THEN existing.start + Hour ELSE existing.end

Abs(x) == IF x < 0 THEN 0 - x ELSE x

\* abs((new_start - existing_end).total_seconds()) < min_gap.total_seconds();
\* the difference from NaT is NaN and no comparison with NaN is true
too_close(new_class, existing, prefs) ==
    /\ notna(existing_end_of(existing))
    /\ Abs(new_class.start - existing_end_of(existing)) < prefs.min_gap_hours * Hour

\* FitnessRecommender._check_gap_requirement
check_gap_requirement(new_class, existing_classes, prefs) ==
    \A i \in 1..Len(existing_classes) : ~too_close(new_class, existing_classes[i], prefs)

\* A week that is never full.
max_never_reached(week_classes, prefs) == FALSE

\* len(week_classes) >= self.preferences['max_classes_per_week']
max_reached(week_classes, prefs) == Len(week_classes) >= prefs.max_classes_per_week

\* A schedule that does not look at what it has selected.
not_selected_unchecked(class_row, selected_classes) == TRUE

\* class_id not in selected_classes
not_selected(class_row, selected_classes) == class_id(class_row) \notin selected_classes

\* The loop over the classes of one day (recommendations.py:162-172), from the
\* k-th row on.  The loop state is the week's classes, the ids selected in the
\* run and the rows the loop has looked at.
RECURSIVE DayLoop(_, _, _, _)
DayLoop(day_df, k, st, prefs) ==
    IF k > Len(day_df) THEN st
    ELSE LET class_row == day_df[k]
             seen == [st EXCEPT !.considered = Append(@, class_row)]
             taken == [seen EXCEPT !.week_classes = Append(@, class_row),
                                   !.selected_classes = @ \cup {class_id(class_row)}]
         IN IF /\ not_selected(class_row, st.selected_classes)
               /\ check_gap_requirement(class_row, st.week_classes, prefs)
               THEN IF max_reached(taken.week_classes, prefs) THEN taken
                    ELSE DayLoop(day_df, k + 1, taken, prefs)
               ELSE DayLoop(day_df, k + 1, seen, prefs)

DayOrder ==
    <<"Monday", "Tuesday", "Wednesday", "Thursday", "Friday", "Saturday", "Sunday">>

\* week_df[week_df['day'] == day].sort_values('recommendation_score', ascending=False)
day_df_of(week_df, day) == sort_by_score(SelectSeq(week_df, LAMBDA r : r.day = day))

\* The loop over the days of one week (recommendations.py:159-175), from the
\* d-th day on.
RECURSIVE DaysLoop(_, _, _, _)
DaysLoop(week_df, d, st, prefs) ==
    IF d > Len(DayOrder) THEN st
    ELSE LET after == DayLoop(day_df_of(week_df, DayOrder[d]), 1, st, prefs)
         IN IF max_reached(after.week_classes, prefs) THEN after
            ELSE DaysLoop(week_df, d + 1, after, prefs)

\* Series.unique(): the values in the order of their first appearance
RECURSIVE unique(_)
unique(values) ==
    IF values = <<>> THEN <<>>
    ELSE LET rest == unique(SubSeq(values, 1, Len(values) - 1))
             last == values[Len(values)]
         IN IF \E i \in 1..Len(rest) : rest[i] = last THEN rest ELSE Append(rest, last)

\* The loop over the weeks (recommendations.py:155-177), from the k-th week
\* on.  acc holds optimal_schedule, selected_classes and the log of the weeks.
RECURSIVE WeeksLoop(_, _, _, _, _)
WeeksLoop(recs, weeks, k, acc, prefs) ==
    IF k > Len(weeks) THEN acc
    ELSE LET week_df == SelectSeq(recs, LAMBDA r : r.week = weeks[k])
             done == DaysLoop(week_df, 1,
                              [week_classes |-> <<>>,
                               selected_classes |-> acc.selected_classes,
                               considered |-> <<>>],
                              prefs)
         IN WeeksLoop(recs, weeks, k + 1,
                      [optimal_schedule |-> acc.optimal_schedule \o done.week_classes,
                       selected_classes |-> done.selected_classes,
                       log |-> Append(acc.log, [week |-> weeks[k],
                                                week_classes |-> done.week_classes,
                                                considered |-> done.considered])],
                      prefs)

NothingScheduled == [optimal_schedule |-> <<>>, selected_classes |-> {}, log |-> <<>>]

\* FitnessRecommender.suggest_optimal_schedule
suggest_optimal_schedule(df, cal, prefs) ==
    IF df = <<>> THEN NothingScheduled
    ELSE LET recs == WithWeekAndDay(recommend_classes(df, cal, ScheduleTopN, prefs))
         IN WeeksLoop(recs, unique([i \in 1..Len(recs) |-> recs[i].week]), 1,
                      NothingScheduled, prefs)

\* --------------------------------------------------------------- insights
\* A table with its column names; the rows are records of those columns.
Table(columns, rows) == [columns |-> columns, rows |-> rows]

InsightColumns == {"start_dt", "day", "hour"}

\* combined_df['start_dt'] = pd.to_datetime(combined_df['start']) and the two
\* columns derived from it, assigned to the table that was passed
with_insight_columns(table) ==
    Table(table.columns \cup InsightColumns,
          [i \in 1..Len(table.rows) |->
              LET start_dt == table.rows[i].start
              IN table.rows[i]
                 @@ [start_dt |-> start_dt,
                     day |-> IF isna(start_dt) THEN None ELSE day_name(start_dt),
                     hour |-> IF isna(start_dt) THEN NaT ELSE hour_of(start_dt)]])

\* recommendations.py:213-219: nothing is written for an empty table or a
\* table without a start column
insights_table_after(table) ==
    IF table.rows = <<>> \/ "start" \notin table.columns THEN table
    ELSE with_insight_columns(table)

\* value_counts(): how often a value is in a column, missing values left out
value_count(rows, column, value) ==
    Cardinality({i \in 1..Len(rows) : rows[i][column] = value})
counted_values(rows, column, missing) == {rows[i][column] : i \in 1..Len(rows)} \ {missing}

\* value_counts().index[0]: a value with the highest count
most_frequent(rows, column, missing) ==
    {v \in counted_values(rows, column, missing) :
        \A w \in counted_values(rows, column, missing) :
            value_count(rows, column, v) >= value_count(rows, column, w)}

\* day_counts.max() - day_counts.min() > 3
Unbalanced(rows) ==
    \E d, e \in counted_values(rows, "day", None) :
        value_count(rows, "day", d) - value_count(rows, "day", e) > 3

\* len(combined_df[combined_df['hour'].between(low, high)])
hours_between(rows, low, high) ==
    Cardinality({i \in 1..Len(rows) : low <= rows[i].hour /\ rows[i].hour <= high})

NoInsights(table) ==
    [raised |-> FALSE,
     total_events |-> Len(table.rows),
     busiest_day |-> None,
     busiest_hour |-> NaT,
     most_common_class |-> None,
     schedule_balance |-> "balanced",
     recommendations |-> <<>>]

\* FitnessRecommender.get_schedule_insights, busiest_day, busiest_hour and
\* most_common being the first entries of the three value counts.  The call
\* raises at index[0] when no row has a start.
get_schedule_insights(table, busiest_day, busiest_hour, most_common) ==
    IF table.rows = <<>> \/ "start" \notin table.columns THEN NoInsights(table)
    ELSE LET rows == with_insight_columns(table).rows
             morning_count == hours_between(rows, 6, 11)
             afternoon_count == hours_between(rows, 12, 16)
             evening_count == hours_between(rows, 17, 21)
         IN IF counted_values(rows, "day", None) = {}
               THEN [NoInsights(table) EXCEPT !.raised = TRUE]
               ELSE [raised |-> FALSE,
                     total_events |-> Len(rows),
                     busiest_day |-> busiest_day,
                     busiest_hour |-> busiest_hour,
                     most_common_class |-> most_common,
                     schedule_balance |->
                         IF Unbalanced(rows) THEN "unbalanced" ELSE "balanced",
                     recommendations |->
                         (IF Unbalanced(rows) THEN <<"spread evenly">> ELSE <<>>)
                         \o (IF morning_count = 0 THEN <<"no morning">> ELSE <<>>)
                         \o (IF evening_count > morning_count + afternoon_count
                                THEN <<"mostly evening">> ELSE <<>>)]

\* The first entry of a value count, None or NaT when nothing was counted
first_of(table, column, missing) ==
    IF column \notin table.columns \/ counted_values(table.rows, column, missing) = {}
       THEN {missing}
       ELSE most_frequent(table.rows, column, missing)

\* ---------------------------------------------- the merger as a state machine
\* A cleaned record: a start, an end that is missing or half an hour or an
\* hour later, and the title column of its cleaner.
Ends(s) == {NaT, s + 1, s + Hour}

CalendarRows ==
    {[start |-> s, end |-> e, calendar_event |-> "Lecture", scraped_event |-> None,
      time_range |-> <<>>] : s \in 0..MaxTime, e \in UNION {Ends(t) : t \in 0..MaxTime}}

ScrapedRows ==
    {[start |-> s, end |-> e, calendar_event |-> None, scraped_event |-> "Yoga",
      time_range |-> <<>>] : s \in 0..MaxTime, e \in UNION {Ends(t) : t \in 0..MaxTime}}

WellFormed(r) == r.end \in Ends(r.start)

InputRows == Len(google_clean.rows) + Len(web_clean.rows) + Len(cmu_clean.rows)

NoRun ==
    /\ combined_df = <<>>
    /\ final_df = <<>>
    /\ timeline = <<>>

NoSchedule ==
    /\ fitness_df = <<>>
    /\ recommendations = <<>>
    /\ optimal_schedule = <<>>
    /\ week_log = <<>>
    /\ insights_df = <<>>
    /\ insights = <<>>

NoScore ==
    /\ preferences = DefaultPreferences
    /\ event_row = <<>>
    /\ calendar_df = <<>>
    /\ score = 0
    /\ previous_call = <<>>

NoRaw ==
    /\ NoScore
    /\ google_df = <<>>
    /\ web_df = <<>>
    /\ cmu_df = <<>>
    /\ occurrences = <<>>
    /\ first_run = <<>>

InitMerge ==
    /\ pc = "input"
    /\ now = 0
    /\ NoRaw
    /\ google_clean = EmptyFrame(CalendarColumns)
    /\ web_clean = EmptyFrame(ScrapedColumns)
    /\ cmu_clean = EmptyFrame(ScrapedColumns)
    /\ NoRun
    /\ NoSchedule

\* clean_google_calendar_df returned one more record
CalendarRecord ==
    /\ pc = "input"
    /\ InputRows < MaxRows
    /\ \E r \in CalendarRows :
          /\ WellFormed(r)
          /\ google_clean' = [google_clean EXCEPT !.rows = Append(@, r)]
    /\ UNCHANGED <<scheduleVars, scoreVars, pc, now, rawVars, auxVars, web_clean, cmu_clean, mergeVars>>

\* clean_webscraping_df returned one more record
WebRecord ==
    /\ pc = "input"
    /\ InputRows < MaxRows
    /\ cmu_clean.rows = <<>>
    /\ \E r \in ScrapedRows :
          /\ WellFormed(r)
          /\ web_clean' = [web_clean EXCEPT !.rows = Append(@, r)]
    /\ UNCHANGED <<scheduleVars, scoreVars, pc, now, rawVars, auxVars, google_clean, cmu_clean, mergeVars>>

\* clean_cmu_scraper_df returned one more record
CmuRecord ==
    /\ pc = "input"
    /\ InputRows < MaxRows
    /\ \E r \in ScrapedRows :
          /\ WellFormed(r)
          /\ cmu_clean' = [cmu_clean EXCEPT !.rows = Append(@, r)]
    /\ UNCHANGED <<scheduleVars, scoreVars, pc, now, rawVars, auxVars, google_clean, web_clean, mergeVars>>

\* standardize_and_combine_optimized, from the cleaned tables on
Merge ==
    /\ pc = "input"
    /\ pc' = "merged"
    /\ combined_df' = Combine(google_clean, web_clean, cmu_clean)
    /\ final_df' = remove_overlapping_events_optimized(combined_df')
    /\ timeline' = FinalColumns(final_df')
    /\ UNCHANGED <<scheduleVars, scoreVars, now, rawVars, auxVars, cleanVars>>

NextMerge == CalendarRecord \/ WebRecord \/ CmuRecord \/ Merge

SpecMerge == InitMerge /\ [][NextMerge]_vars

\* --------------------------------------------- the scorer as a state machine
\* Monday 09:00 and 18:00, Saturday 13:00, Sunday 02:00 (UTC)
EventStarts == {9 * Hour, 18 * Hour, 5 * Day + 13 * Hour, 6 * Day + 2 * Hour}

EventRows ==
    {[start |-> s, end |-> e, scraped_event |-> t] :
        s \in EventStarts \cup {NaT}, e \in {Absent, NaT, 10 * Hour}, t \in {"Yoga Flow", "HIIT"}}

\* Commitments around Monday 09:00
CommitmentRows ==
    [start : {9 * Hour, 9 * Hour + 1, NaT}, end : {NaT, 10 * Hour, 10 * Hour + 1}]

RECURSIVE SeqsUpTo(_, _)
SeqsUpTo(S, n) ==
    IF n = 0 THEN {<<>>}
    ELSE SeqsUpTo(S, n - 1)
         \cup {Append(q, x) : q \in {q \in SeqsUpTo(S, n - 1) : Len(q) = n - 1}, x \in S}

ScoringArguments ==
    [preferred_times : {<<>>, <<{}>>, <<{"evening"}>>, <<{"night"}>>},
     preferred_days : {<<>>, <<{"Saturday", "Sunday"}>>},
     class_types : {<<>>, <<{}>>, <<{"yoga"}>>, <<{"spin", "YOGA"}>>},
     max_classes_per_week : {<<>>},
     min_gap_hours : {<<>>}]

InitScore ==
    /\ pc = "input"
    /\ now = 0
    /\ google_df = <<>>
    /\ web_df = <<>>
    /\ cmu_df = <<>>
    /\ occurrences = <<>>
    /\ first_run = <<>>
    /\ google_clean = EmptyFrame(CalendarColumns)
    /\ web_clean = EmptyFrame(ScrapedColumns)
    /\ cmu_clean = EmptyFrame(ScrapedColumns)
    /\ NoRun
    /\ NoSchedule
    /\ preferences = DefaultPreferences
    /\ event_row \in EventRows
    /\ calendar_df \in SeqsUpTo(CommitmentRows, MaxCalendar)
    /\ score = 0
    /\ previous_call = <<>>

\* recommender.set_preferences(...)
SetPreferences ==
    /\ pc = "input"
    /\ pc' = "configured"
    /\ \E args \in ScoringArguments : preferences' = set_preferences(preferences, args)
    /\ UNCHANGED <<scheduleVars, otherVars, event_row, calendar_df, score,
                   previous_call>>

\* recommender.calculate_fitness_score(event_row, calendar_df)
Score ==
    /\ pc \in {"input", "configured"}
    /\ pc' = "scored"
    /\ score' = calculate_fitness_score(event_row, calendar_df, preferences)
    /\ UNCHANGED <<scheduleVars, otherVars, preferences, event_row,
                   calendar_df, previous_call>>

\* What the caller keeps of a scoring call
ThisCall == [calendar_df |-> calendar_df, preferences |-> preferences, score |-> score]

\* Commitments the caller may add: those around Monday 09:00 and one at
\* Monday 18:00-19:00
AddedCommitments == CommitmentRows \cup {[start |-> 18 * Hour, end |-> 19 * Hour]}

\* The caller puts one more commitment on the calendar and scores the same
\* candidate again: calculate_fitness_score(event_row, calendar_df)
ScoreWithCommitment ==
    /\ pc = "scored"
    /\ Len(calendar_df) < MaxCalendar
    /\ pc' = "rescored"
    /\ previous_call' = ThisCall
    /\ \E c \in AddedCommitments : calendar_df' = Append(calendar_df, c)
    /\ score' = calculate_fitness_score(event_row, calendar_df', preferences)
    /\ UNCHANGED <<scheduleVars, otherVars, preferences, event_row>>

DayParts == {"morning", "afternoon", "evening", "night"}
DayNames == {"Monday", "Tuesday", "Wednesday", "Thursday", "Friday", "Saturday", "Sunday"}

\* The caller prefers one more day-part or one more weekday and scores the
\* same candidate again
ScoreWithPreference ==
    /\ pc = "scored"
    /\ pc' = "rescored"
    /\ previous_call' = ThisCall
    /\ \/ \E t \in DayParts \ preferences.preferred_times :
             preferences' = [preferences EXCEPT !.preferred_times = @ \cup {t}]
       \/ \E d \in DayNames \ preferences.preferred_days :
             preferences' = [preferences EXCEPT !.preferred_days = @ \cup {d}]
    /\ score' = calculate_fitness_score(event_row, calendar_df, preferences')
    /\ UNCHANGED <<scheduleVars, otherVars, event_row, calendar_df>>

NextScore == SetPreferences \/ Score \/ ScoreWithCommitment \/ ScoreWithPreference

SpecScore == InitScore /\ [][NextScore]_vars

\* ------------------------------------------------- claims about the merger
\* The effective end and the overlap test as the specification words them.
EffectiveEnd(r) == IF r.end = NaT THEN r.start + Hour ELSE r.end
HalfOpenOverlap(f, c) == f.start < EffectiveEnd(c) /\ c.start < EffectiveEnd(f)

Fixed(df) == {i \in 1..Len(df) : df[i].calendar_event # None}
Candidates(df) == {i \in 1..Len(df) : df[i].scraped_event # None}
Count(df, r) == Cardinality({i \in 1..Len(df) : df[i] = r})
Merged == pc = "merged"

\* C1: when the resolver's input holds a fixed commitment, no fixed record
\* and candidate of its output overlap under the half-open test.
C1_NoOverlap ==
    (Merged /\ Fixed(combined_df) # {}) =>
        \A f \in Fixed(final_df), c \in Candidates(final_df) :
            ~HalfOpenOverlap(final_df[f], final_df[c])

\* A run in which one candidate was dropped for a conflict and another kept.
C1_Witness ==
    /\ Merged
    /\ Fixed(combined_df) # {}
    /\ Candidates(final_df) # {}
    /\ Cardinality(Candidates(final_df)) < Cardinality(Candidates(combined_df))

\* C2: every fixed commitment that enters the resolver is in its output, as
\* often as it entered.
C2_FixedKept ==
    Merged =>
        \A f \in Fixed(combined_df) :
            /\ combined_df[f].start # NaT
            /\ Count(final_df, combined_df[f]) >= Count(combined_df, combined_df[f])

\* Two fixed commitments that overlap each other and a candidate.
C2_Witness ==
    /\ Merged
    /\ \E f \in Fixed(combined_df), g \in Fixed(combined_df), c \in Candidates(combined_df) :
          /\ f < g
          /\ HalfOpenOverlap(combined_df[f], combined_df[g])
          /\ HalfOpenOverlap(combined_df[f], combined_df[c])
          /\ Cardinality(Fixed(final_df)) = Cardinality(Fixed(combined_df))

\* C3: a candidate that overlaps no fixed record is kept, as often as it
\* entered.
C3_OnlyConflictsDropped ==
    Merged =>
        \A c \in Candidates(combined_df) :
            (\A f \in Fixed(combined_df) : ~HalfOpenOverlap(combined_df[f], combined_df[c]))
                => Count(final_df, combined_df[c]) >= Count(combined_df, combined_df[c])

\* A kept candidate that touches a fixed record at both kinds of boundary:
\* one ends where a fixed record starts, one starts where a fixed record ends.
C3_Witness ==
    /\ Merged
    /\ \E f \in Fixed(combined_df), c \in Candidates(final_df), d \in Candidates(final_df) :
          /\ EffectiveEnd(final_df[c]) = combined_df[f].start
          /\ final_df[d].start = EffectiveEnd(combined_df[f])

\* C4: the table the merger returns is in non-decreasing order of start.
Sorted(df) == \A i \in 1..(Len(df) - 1) : df[i].start <= df[i + 1].start

C4_Sorted == Merged => (Sorted(final_df) /\ Len(timeline) = Len(final_df))

\* The cleaned tables arrive out of order and a candidate is dropped.
C4_Witness ==
    /\ Merged
    /\ ~Sorted(google_clean.rows \o web_clean.rows \o cmu_clean.rows)
    /\ Fixed(final_df) # {}
    /\ Candidates(final_df) # {}
    /\ Len(final_df) < Len(combined_df)

\* The other two branches of the resolver, reached from unsorted input.
C4_NoFixedBranch ==
    Merged /\ Fixed(combined_df) = {} /\ ~Sorted(web_clean.rows \o cmu_clean.rows)
C4_NoCandidateBranch ==
    Merged /\ Candidates(combined_df) = {} /\ ~Sorted(google_clean.rows)

\* ------------------------------------------- the expander as a state machine
Weekdays == {"Mon", "Tue", "Wed", "Thu", "Fri", "Sat", "Sun", "Monday"}
TermDates == 0..MaxDay \cup {NaT}

ClassDefinitions ==
    [class_name : {"Yoga"}, weekday : Weekdays,
     term_start_date : TermDates, term_end_date : TermDates,
     start_time_local : {"02:30", "09:00", "TBD"}, end_time_local : {"10:00", "TBD"}]

InitExpand ==
    /\ pc = "input"
    /\ now = 0
    /\ NoScore
    /\ google_df = <<>>
    /\ web_df = <<>>
    /\ \E row \in ClassDefinitions : cmu_df = <<row>>
    /\ occurrences = <<>>
    /\ first_run = <<>>
    /\ google_clean = EmptyFrame(CalendarColumns)
    /\ web_clean = EmptyFrame(ScrapedColumns)
    /\ cmu_clean = EmptyFrame(ScrapedColumns)
    /\ NoRun
    /\ NoSchedule

\* generate_class_occurrences_optimized(row, weekday_map, current_time)
Expand ==
    /\ pc = "input"
    /\ pc' = "expanded"
    /\ occurrences' = generate_class_occurrences_optimized(cmu_df[1]).list
    /\ UNCHANGED <<scheduleVars, scoreVars, now, rawVars, first_run, cleanVars, mergeVars>>

NextExpand == Expand

SpecExpand == InitExpand /\ [][NextExpand]_vars

\* ------------------------------------------- the cleaners as a state machine
\* One raw table is filled, then its cleaner is called; pc names the cleaner
\* that returned.
NowChoices == {d * Day + 14 * Hour : d \in 0..MaxDay}

CmuRows ==
    [class_name : {"Yoga"}, weekday : {"Mon", "Sun", "Monday"},
     term_start_date : {0, NaT}, term_end_date : {MaxDay},
     start_time_local : {"02:30", "09:00", "TBD"}, end_time_local : {"10:00"}]

\* Event listings at 00:30 to 01:30 on the model's first Monday; the dates of
\* the natural-language texts come without a year, with the year of
\* processing or with another year.
WebRows ==
    [title : {"Run"},
     date_time : [shape : {"iso", "arrow", "natural", "junk", "nan"},
                  first : {1, NaT}, second : {3, NaT}, year : {"none"}]]
    \cup [title : {"Run"},
          date_time : [shape : {"natural"}, first : {1, NaT}, second : {3, NaT},
                       year : {"current", "other"}]]

GoogleRows ==
    [Summary : {"Lecture", ""}, Start : [kind : {"timed", "date"}, t : {2, NaT}],
     End : {4, NaT}]

InitClean ==
    /\ pc = "input"
    /\ now \in NowChoices
    /\ NoRaw
    /\ google_clean = EmptyFrame(CalendarColumns)
    /\ web_clean = EmptyFrame(ScrapedColumns)
    /\ cmu_clean = EmptyFrame(ScrapedColumns)
    /\ NoRun
    /\ NoSchedule

RawCmuRow ==
    /\ pc = "input"
    /\ google_df = <<>> /\ web_df = <<>>
    /\ Len(cmu_df) < MaxTable
    /\ \E row \in CmuRows : cmu_df' = Append(cmu_df, row)
    /\ UNCHANGED <<scheduleVars, scoreVars, pc, now, google_df, web_df, auxVars, cleanVars, mergeVars>>

RawWebRow ==
    /\ pc = "input"
    /\ google_df = <<>> /\ cmu_df = <<>>
    /\ Len(web_df) < MaxTable
    /\ \E row \in WebRows : web_df' = Append(web_df, row)
    /\ UNCHANGED <<scheduleVars, scoreVars, pc, now, google_df, cmu_df, auxVars, cleanVars, mergeVars>>

RawGoogleRow ==
    /\ pc = "input"
    /\ web_df = <<>> /\ cmu_df = <<>>
    /\ Len(google_df) < MaxTable
    /\ \E row \in GoogleRows : google_df' = Append(google_df, row)
    /\ UNCHANGED <<scheduleVars, scoreVars, pc, now, web_df, cmu_df, auxVars, cleanVars, mergeVars>>

CleanGoogle ==
    /\ pc = "input"
    /\ web_df = <<>> /\ cmu_df = <<>>
    /\ pc' = "google"
    /\ google_clean' = clean_google_calendar_df(google_df)
    /\ UNCHANGED <<scheduleVars, scoreVars, now, rawVars, auxVars, web_clean, cmu_clean, mergeVars>>

CleanWeb ==
    /\ pc = "input"
    /\ google_df = <<>> /\ cmu_df = <<>>
    /\ pc' = "web"
    /\ web_clean' = clean_webscraping_df(web_df)
    /\ UNCHANGED <<scheduleVars, scoreVars, now, rawVars, auxVars, google_clean, cmu_clean, mergeVars>>

\* current_time = pd.Timestamp.now(tz='UTC') is read when the call begins
CleanCmu ==
    /\ pc = "input"
    /\ google_df = <<>> /\ web_df = <<>>
    /\ pc' = "cmu"
    /\ cmu_clean' = clean_cmu_scraper_df(cmu_df, now)
    /\ UNCHANGED <<scheduleVars, scoreVars, now, rawVars, auxVars, google_clean, web_clean, mergeVars>>

NextClean ==
    RawCmuRow \/ RawWebRow \/ RawGoogleRow \/ CleanGoogle \/ CleanWeb \/ CleanCmu

SpecClean == InitClean /\ [][NextClean]_vars

\* ----------------------------------------- the whole merger as a state machine
\* standardize_and_combine is run twice on the same tables; the clock may
\* advance in between.
PipelineCmuRows ==
    [class_name : {"Yoga"}, weekday : {"Mon", "Monday"},
     term_start_date : {0}, term_end_date : {MaxDay},
     start_time_local : {"09:00"}, end_time_local : {"10:00"}]

PipelineWebRows ==
    [title : {"Run"},
     date_time : [shape : {"iso", "junk"}, first : {14 * Hour - 1}, second : {NaT}]]

PipelineGoogleRows ==
    [Summary : {"Lecture", None}, Start : [kind : {"timed"}, t : {14 * Hour, 7 * Day + 13 * Hour}],
     End : {NaT}]

\* A cleaner that writes into the table it was given: the rows it filters
\* out are gone from the caller's table.
written_in_place(df) == SubSeq(df, 2, Len(df))

\* cleaned_df = df.copy(): the cleaner works on a copy, so the table the
\* caller holds after the call is the table it passed.
caller_table_after(df) == df

\* if df is not None and not df.empty: cleaned = clean_func(df)
CleanedGoogle(df) == IF df = <<>> THEN EmptyFrame(CalendarColumns) ELSE clean_google_calendar_df(df)
CleanedWeb(df) == IF df = <<>> THEN EmptyFrame(ScrapedColumns) ELSE clean_webscraping_df(df)
CleanedCmu(df, t) == IF df = <<>> THEN EmptyFrame(ScrapedColumns) ELSE clean_cmu_scraper_df(df, t)

RawRows == Len(google_df) + Len(web_df) + Len(cmu_df)

InitPipeline ==
    /\ pc = "input"
    /\ now \in NowChoices
    /\ NoRaw
    /\ google_clean = EmptyFrame(CalendarColumns)
    /\ web_clean = EmptyFrame(ScrapedColumns)
    /\ cmu_clean = EmptyFrame(ScrapedColumns)
    /\ NoRun
    /\ NoSchedule

GivenGoogleRow ==
    /\ pc = "input"
    /\ RawRows < MaxRows
    /\ web_df = <<>> /\ cmu_df = <<>>
    /\ \E row \in PipelineGoogleRows : google_df' = Append(google_df, row)
    /\ UNCHANGED <<scheduleVars, scoreVars, pc, now, web_df, cmu_df, auxVars, cleanVars, mergeVars>>

GivenWebRow ==
    /\ pc = "input"
    /\ RawRows < MaxRows
    /\ cmu_df = <<>>
    /\ \E row \in PipelineWebRows : web_df' = Append(web_df, row)
    /\ UNCHANGED <<scheduleVars, scoreVars, pc, now, google_df, cmu_df, auxVars, cleanVars, mergeVars>>

GivenCmuRow ==
    /\ pc = "input"
    /\ RawRows < MaxRows
    /\ \E row \in PipelineCmuRows : cmu_df' = Append(cmu_df, row)
    /\ UNCHANGED <<scheduleVars, scoreVars, pc, now, google_df, web_df, auxVars, cleanVars, mergeVars>>

\* standardize_and_combine(google_df, webscrape_df, cmu_df)
StandardizeAndCombine ==
    /\ google_clean' = CleanedGoogle(google_df)
    /\ web_clean' = CleanedWeb(web_df)
    /\ cmu_clean' = CleanedCmu(cmu_df, now)
    /\ combined_df' = Combine(google_clean', web_clean', cmu_clean')
    /\ final_df' = remove_overlapping_events_optimized(combined_df')
    /\ timeline' = FinalColumns(final_df')
    /\ google_df' = caller_table_after(google_df)
    /\ web_df' = caller_table_after(web_df)
    /\ cmu_df' = caller_table_after(cmu_df)

FirstRun ==
    /\ pc = "input"
    /\ pc' = "once"
    /\ StandardizeAndCombine
    /\ first_run' = <<[now |-> now, google_df |-> google_df, web_df |-> web_df,
                       cmu_df |-> cmu_df, timeline |-> timeline']>>
    /\ UNCHANGED <<scheduleVars, scoreVars, now, occurrences>>

\* Time passes between the two runs.
Tick ==
    /\ pc = "once"
    /\ \E t \in NowChoices : t > now /\ now' = t
    /\ UNCHANGED <<scheduleVars, scoreVars, pc, rawVars, auxVars, cleanVars, mergeVars>>

SecondRun ==
    /\ pc = "once"
    /\ pc' = "twice"
    /\ StandardizeAndCombine
    /\ UNCHANGED <<scheduleVars, scoreVars, now, auxVars>>

NextPipeline == GivenGoogleRow \/ GivenWebRow \/ GivenCmuRow \/ FirstRun \/ Tick \/ SecondRun

SpecPipeline == InitPipeline /\ [][NextPipeline]_vars

\* ---------------------------------------- the recommender as a state machine
\* Candidates of a table with an end column: Monday 09:00-12:00 and 09:00
\* without end, Monday 10:00-11:00, Tuesday 09:00, Monday 09:00-10:00 a week
\* later, and one without start
ClassRowsWithEnd ==
    {[start |-> 9 * Hour, end |-> 12 * Hour, scraped_event |-> "Yoga Flow"],
     [start |-> 9 * Hour, end |-> NaT, scraped_event |-> "Yoga Flow"],
     [start |-> 10 * Hour, end |-> 11 * Hour, scraped_event |-> "HIIT"],
     [start |-> Day + 9 * Hour, end |-> NaT, scraped_event |-> "HIIT"],
     [start |-> 7 * Day + 9 * Hour, end |-> 7 * Day + 10 * Hour, scraped_event |-> "HIIT"],
     [start |-> NaT, end |-> NaT, scraped_event |-> "HIIT"]}

\* Candidates of a table without an end column, one of them on Monday 05:00
ClassRowsWithoutEnd ==
    {[start |-> 9 * Hour, end |-> Absent, scraped_event |-> "Yoga Flow"],
     [start |-> 9 * Hour, end |-> Absent, scraped_event |-> "HIIT"],
     [start |-> 5 * Hour, end |-> Absent, scraped_event |-> "HIIT"],
     [start |-> 10 * Hour, end |-> Absent, scraped_event |-> "HIIT"],
     [start |-> Day + 9 * Hour, end |-> Absent, scraped_event |-> "HIIT"],
     [start |-> 7 * Day + 9 * Hour, end |-> Absent, scraped_event |-> "HIIT"]}

CandidateTables ==
    SeqsUpTo(ClassRowsWithEnd, MaxCandidates) \cup SeqsUpTo(ClassRowsWithoutEnd, MaxCandidates)

\* Calendars of lectures on Monday 09:00-10:00
ScheduleCalendars == SeqsUpTo({[start |-> 9 * Hour, end |-> 10 * Hour]}, MaxCalendar)

ScheduleArguments ==
    [preferred_times : {<<>>},
     preferred_days : {<<>>},
     class_types : {<<>>},
     max_classes_per_week : {<<>>, <<1>>, <<2>>},
     min_gap_hours : {<<>>, <<0>>, <<2>>}]
    \cup [preferred_times : {<<{}>>},
          preferred_days : {<<>>},
          class_types : {<<>>},
          max_classes_per_week : {<<>>},
          min_gap_hours : {<<>>}]

InitSchedule ==
    /\ pc = "input"
    /\ now = 0
    /\ google_df = <<>>
    /\ web_df = <<>>
    /\ cmu_df = <<>>
    /\ occurrences = <<>>
    /\ first_run = <<>>
    /\ google_clean = EmptyFrame(CalendarColumns)
    /\ web_clean = EmptyFrame(ScrapedColumns)
    /\ cmu_clean = EmptyFrame(ScrapedColumns)
    /\ NoRun
    /\ preferences = DefaultPreferences
    /\ event_row = <<>>
    /\ score = 0
    /\ previous_call = <<>>
    /\ calendar_df \in ScheduleCalendars
    /\ fitness_df \in CandidateTables
    /\ recommendations = <<>>
    /\ optimal_schedule = <<>>
    /\ week_log = <<>>
    /\ insights_df = <<>>
    /\ insights = <<>>

\* recommender.set_preferences(preferred_times=..., max_classes_per_week=...,
\* min_gap_hours=...) on a recommender as constructed; the caller keeps the
\* arguments it gave
SetLimits ==
    /\ pc = "input"
    /\ pc' = "configured"
    /\ \E args \in ScheduleArguments :
          /\ previous_call' = args
          /\ preferences' = set_preferences(preferences, args)
    /\ UNCHANGED <<scheduleVars, otherVars, event_row, calendar_df, score>>

\* The tables the caller holds when it calls the recommender
TablesGiven(combined, top_n) ==
    [fitness_df |-> fitness_df, calendar_df |-> calendar_df, combined_df |-> combined,
     top_n |-> top_n]

\* recommender.recommend_classes(fitness_df, calendar_df, top_n)
RecommendClasses ==
    /\ pc \in {"input", "configured"}
    /\ pc' = "recommended"
    /\ \E top_n \in 0..MaxTopN :
          /\ previous_call' = TablesGiven(<<>>, top_n)
          /\ recommendations' = recommend_classes(fitness_df, calendar_df, top_n, preferences)
    /\ fitness_df' = caller_table_after(fitness_df)
    /\ calendar_df' = caller_table_after(calendar_df)
    /\ UNCHANGED <<otherVars, preferences, event_row, score, optimal_schedule, week_log,
                   insights_df, insights>>

\* recommender.suggest_optimal_schedule(fitness_df, calendar_df)
SuggestOptimalSchedule ==
    /\ pc \in {"input", "configured"}
    /\ pc' = "scheduled"
    /\ previous_call' = TablesGiven(<<>>, ScheduleTopN)
    /\ optimal_schedule' =
          suggest_optimal_schedule(fitness_df, calendar_df, preferences).optimal_schedule
    /\ week_log' = suggest_optimal_schedule(fitness_df, calendar_df, preferences).log
    /\ fitness_df' = caller_table_after(fitness_df)
    /\ calendar_df' = caller_table_after(calendar_df)
    /\ UNCHANGED <<otherVars, preferences, event_row, score, recommendations, insights_df,
                   insights>>

\* combined_df as the caller has it: the commitments and the candidates in one
\* table with a start column
CombinedTable ==
    Table({"start", "end", "scraped_event", "calendar_event"},
          [i \in 1..Len(calendar_df) |->
              [start |-> calendar_df[i].start, end |-> calendar_df[i].end,
               scraped_event |-> None, calendar_event |-> "Lecture"]]
          \o [i \in 1..Len(fitness_df) |->
              [start |-> fitness_df[i].start,
               end |-> IF fitness_df[i].end = Absent THEN NaT ELSE fitness_df[i].end,
               scraped_event |-> fitness_df[i].scraped_event, calendar_event |-> None]])

\* The same records as standardize_and_combine returns them: without start
TimelineTable ==
    Table({"time_range", "scraped_event", "calendar_event"},
          [i \in 1..Len(CombinedTable.rows) |->
              [time_range |-> create_time_range_display(CombinedTable.rows[i].start,
                                                        CombinedTable.rows[i].end),
               scraped_event |-> CombinedTable.rows[i].scraped_event,
               calendar_event |-> CombinedTable.rows[i].calendar_event]])

\* recommender.get_schedule_insights(combined_df)
GetScheduleInsights ==
    /\ pc \in {"input", "configured"}
    /\ pc' = "insights"
    /\ \E table \in {CombinedTable, TimelineTable} :
          /\ previous_call' = TablesGiven(table, 0)
          /\ insights_df' = insights_table_after(table)
          /\ \E busiest_day \in first_of(insights_df', "day", None),
                busiest_hour \in first_of(insights_df', "hour", NaT),
                most_common \in first_of(insights_df', "scraped_event", None) :
                insights' = get_schedule_insights(table, busiest_day, busiest_hour,
                                                  most_common)
    /\ UNCHANGED <<otherVars, preferences, event_row, calendar_df, score, fitness_df,
                   recommendations, optimal_schedule, week_log>>

NextSchedule == SetLimits \/ RecommendClasses \/ SuggestOptimalSchedule \/ GetScheduleInsights

SpecSchedule == InitSchedule /\ [][NextSchedule]_vars

\* ----------------------------------------------- claims about the cleaners
\* C6: every record the recurring-class cleaner returns starts at or after
\* the instant read from the clock when the call began.
C6_FutureOnly ==
    pc = "cmu" => \A i \in 1..Len(cmu_clean.rows) : cmu_clean.rows[i].start >= now

\* A call that returned a record and dropped an occurrence that lay in the past.
C6_Witness ==
    /\ pc = "cmu"
    /\ cmu_clean.rows # <<>>
    /\ \E i \in 1..Len(AllOccurrences(cmu_df).list) : AllOccurrences(cmu_df).list[i].start < now

\* The weekday names and numbers, and the dates of a term, as the
\* specification gives them.
RecognizedWeekdays == {"Mon", "Tue", "Wed", "Thu", "Fri", "Sat", "Sun"}
WeekdayNumber(w) ==
    CASE w = "Mon" -> 0 [] w = "Tue" -> 1 [] w = "Wed" -> 2 [] w = "Thu" -> 3
      [] w = "Fri" -> 4 [] w = "Sat" -> 5 [] w = "Sun" -> 6
ParseableTimes == {"02:30", "09:00", "10:00"}
Expandable(row) ==
    /\ row.weekday \in RecognizedWeekdays
    /\ row.term_start_date # NaT /\ row.term_end_date # NaT
    /\ row.start_time_local \in ParseableTimes /\ row.end_time_local \in ParseableTimes
ExpectedDates(row) ==
    {d \in row.term_start_date..row.term_end_date : d % 7 = WeekdayNumber(row.weekday)}
WeeklyDates(row, occ) ==
    /\ Len(occ) = Cardinality(ExpectedDates(row))
    /\ \A i \in 1..Len(occ) : occ[i].occurrence_date \in ExpectedDates(row)
    /\ \A i \in 1..(Len(occ) - 1) : occ[i + 1].occurrence_date = occ[i].occurrence_date + 7
    /\ occ # <<>> =>
          occ[1].occurrence_date =
              row.term_start_date
                  + ((WeekdayNumber(row.weekday) - (row.term_start_date % 7)) % 7)

\* C7: a definition with a recognized weekday, parseable term dates and
\* parseable times yields exactly one occurrence for each date of the term
\* that falls on its weekday, ascending and seven days apart, from the first
\* such date on.
C7_ExactlyWeekly ==
    (pc = "expanded" /\ Expandable(cmu_df[1])) => WeeklyDates(cmu_df[1], occurrences)

\* The same, for the definitions none of whose dates meets a local time that
\* the spring-forward transition skips: this much the expander does.
InGap(date, text) ==
    text = "02:30" /\ date = SpringForwardDay
C7_WeeklyOutsideGap ==
    (/\ pc = "expanded"
     /\ Expandable(cmu_df[1])
     /\ \A d \in ExpectedDates(cmu_df[1]) :
            ~InGap(d, cmu_df[1].start_time_local) /\ ~InGap(d, cmu_df[1].end_time_local))
        => WeeklyDates(cmu_df[1], occurrences)

\* A term of three matching dates, expanded.
C7_ThreeWeeks ==
    pc = "expanded" /\ Expandable(cmu_df[1]) /\ Len(occurrences) = 3

\* C8: a cleaner given an empty table returns, without raising, an empty
\* table with the canonical columns of its source; so does the
\* recurring-class cleaner when every row expands to no occurrence.
CanonicalEmpty(frame, title) ==
    /\ ~frame.raised
    /\ frame.rows = <<>>
    /\ frame.columns = {"start", "end", title, "description", "location", "url"}

NoOccurrences(df) ==
    \A i \in 1..Len(df) : generate_class_occurrences_optimized(df[i]).list = <<>>

C8_EmptyInput ==
    /\ (pc = "google" /\ google_df = <<>>) => CanonicalEmpty(google_clean, "calendar_event")
    /\ (pc = "web" /\ web_df = <<>>) => CanonicalEmpty(web_clean, "scraped_event")
    /\ (pc = "cmu" /\ cmu_df = <<>>) => CanonicalEmpty(cmu_clean, "scraped_event")
    /\ (pc = "cmu" /\ NoOccurrences(cmu_df)) => CanonicalEmpty(cmu_clean, "scraped_event")

\* The recurring-class cleaner returned from a table whose rows all expand to
\* nothing.
C8_Witness ==
    pc = "cmu" /\ Len(cmu_df) = MaxTable /\ NoOccurrences(cmu_df)

\* The three calls on an empty table.
C8_EmptyGoogle == pc = "google" /\ google_df = <<>>
C8_EmptyWeb == pc = "web" /\ web_df = <<>>
C8_EmptyCmu == pc = "cmu" /\ cmu_df = <<>>

\* C9: the rows a cleaner cannot read are dropped without an exception, and
\* the others yield what they yield alone: the result is the concatenation,
\* in row order, of each readable row's own records.
UnreadableWeb(row) ==
    \/ row.date_time.shape \in {"junk", "nan"}
    \/ row.date_time.first = NaT
UnreadableCmu(row) ==
    \/ row.weekday \notin RecognizedWeekdays
    \/ row.term_start_date = NaT \/ row.term_end_date = NaT
    \/ row.start_time_local \notin ParseableTimes
    \/ row.end_time_local \notin ParseableTimes

RECURSIVE RowByRowWeb(_)
RowByRowWeb(df) ==
    IF df = <<>> THEN <<>>
    ELSE (IF UnreadableWeb(df[1]) THEN <<>> ELSE clean_webscraping_df(<<df[1]>>).rows)
         \o RowByRowWeb(SubSeq(df, 2, Len(df)))

RECURSIVE RowByRowCmu(_, _)
RowByRowCmu(df, t) ==
    IF df = <<>> THEN <<>>
    ELSE (IF UnreadableCmu(df[1]) THEN <<>> ELSE clean_cmu_scraper_df(<<df[1]>>, t).rows)
         \o RowByRowCmu(SubSeq(df, 2, Len(df)), t)

C9_RowFailuresAbsorbed ==
    /\ pc = "web" => (~web_clean.raised /\ web_clean.rows = RowByRowWeb(web_df))
    /\ pc = "cmu" => (~cmu_clean.raised /\ cmu_clean.rows = RowByRowCmu(cmu_df, now))

\* A row with an unknown weekday ahead of a row that yields records.
C9_Witness ==
    /\ pc = "cmu"
    /\ Len(cmu_df) = 2
    /\ cmu_df[1].weekday \notin RecognizedWeekdays
    /\ cmu_clean.rows # <<>>

\* A row with an unreadable date ahead of a row that yields a record.
C9_WebWitness ==
    /\ pc = "web"
    /\ Len(web_df) = 2
    /\ UnreadableWeb(web_df[1])
    /\ Len(web_clean.rows) = 1

\* ------------------------------------------------ claims about repeated runs
SameTables ==
    /\ google_df = first_run[1].google_df
    /\ web_df = first_run[1].web_df
    /\ cmu_df = first_run[1].cmu_df

\* C5 as stated: the second run returns what the first returned, and the
\* tables are as they were given.
C5_Repeatable ==
    pc = "twice" => (timeline = first_run[1].timeline /\ SameTables)

\* No recurring-class occurrence starts at or after the first run's clock
\* reading and before the second's.
NoneStartsBetween ==
    \A i \in 1..Len(AllOccurrences(cmu_df).list) :
        ~(/\ first_run[1].now <= AllOccurrences(cmu_df).list[i].start
          /\ AllOccurrences(cmu_df).list[i].start < now)

\* C5 amended: each run leaves the tables as they were given, and the second
\* run returns what the first returned when no recurring-class occurrence
\* starts between the two clock readings.
C5_RepeatableSameFuture ==
    /\ pc \in {"once", "twice"} => SameTables
    /\ (pc = "twice" /\ NoneStartsBetween) => timeline = first_run[1].timeline

\* Two runs with the clock advanced in between, of tables from all three
\* sources, returning the same non-empty table from which a conflicting
\* candidate was dropped.
C5_Witness ==
    /\ pc = "twice"
    /\ now > first_run[1].now
    /\ google_df # <<>> /\ web_df # <<>> /\ cmu_df # <<>>
    /\ NoneStartsBetween
    /\ Candidates(final_df) # {}
    /\ Len(final_df) < Len(combined_df)

\* -------------------------------------------------- claims about the scorer
\* C10: calculate_fitness_score never returns a negative value.
C10_NonNegative == pc = "scored" => score >= 0

\* A score that the conflicts of two commitments pushed below zero before the
\* floor.
C10_Witness ==
    /\ pc = "scored"
    /\ event_row.start # NaT
    /\ ConflictCount(event_row, calendar_df) = 2
    /\ RawScore(event_row, calendar_df, preferences) < 0
    /\ score = 0

\* The second call scored the same candidate under the same preferences with
\* one more commitment at the end of the calendar.
OneMoreCommitment ==
    /\ pc = "rescored"
    /\ preferences = previous_call.preferences
    /\ Len(calendar_df) = Len(previous_call.calendar_df) + 1
    /\ notna(event_row.start)

AddedCommitment == calendar_df[Len(calendar_df)]

\* The effective end of a record of the scorer: its end when it has one, an
\* hour after its start otherwise.
HasEnd(r) == r.end # NaT /\ r.end # Absent
ScorerEffectiveEnd(r) == IF HasEnd(r) THEN r.end ELSE r.start + Hour
OverlapsCandidate(c) ==
    /\ notna(c.start)
    /\ event_row.start < ScorerEffectiveEnd(c)
    /\ c.start < ScorerEffectiveEnd(event_row)

UnflooredBefore == RawScore(event_row, previous_call.calendar_df, previous_call.preferences)
ConflictsBefore == ConflictCount(event_row, previous_call.calendar_df)

CountedOverlap(c) ==
    /\ notna(c.start) /\ notna(c.end)
    /\ event_row.end # NaT
    /\ event_row.start < c.end
    /\ c.start < ScorerEffectiveEnd(event_row)

C11_SecondConflict ==
    /\ OneMoreCommitment
    /\ CountedOverlap(AddedCommitment)
    /\ ConflictsBefore = 1
    /\ previous_call.score - score = 50

\* The second call scored the same candidate beside the same commitments
\* under preferences with one more day-part or one more weekday.
OneMorePreference ==
    /\ pc = "rescored"
    /\ calendar_df = previous_call.calendar_df
    /\ previous_call.preferences.preferred_times \subseteq preferences.preferred_times
    /\ previous_call.preferences.preferred_days \subseteq preferences.preferred_days
    /\ preferences.class_types = previous_call.preferences.class_types
    /\ preferences # previous_call.preferences

\* C12: one more preferred day-part or weekday never lowers the score of a
\* candidate, the commitments being the same.
C12_PreferenceMonotone == OneMorePreference => score >= previous_call.score

\* The day-part of the candidate was not preferred and is now: 40 more.  And
\* the same for its weekday: 30 more.
C12_Witness ==
    /\ OneMorePreference
    /\ get_time_of_day(hour_of(event_row.start)) \notin previous_call.preferences.preferred_times
    /\ get_time_of_day(hour_of(event_row.start)) \in preferences.preferred_times
    /\ score = previous_call.score + 40

C12_DayWitness ==
    /\ OneMorePreference
    /\ day_name(event_row.start) \notin previous_call.preferences.preferred_days
    /\ day_name(event_row.start) \in preferences.preferred_days
    /\ score = previous_call.score + 30

\* A day-part the candidate is not in was added: the score stays.
C12_UnmatchedWitness ==
    /\ OneMorePreference
    /\ notna(event_row.start)
    /\ previous_call.score > 0
    /\ score = previous_call.score

\* C18: a freshly constructed recommender prefers all four day-parts and all
\* seven weekdays, filters no class type, allows 5 classes a week and asks
\* for a gap of 1 hour.
C18_AllByDefault ==
    pc = "input" =>
        preferences = [preferred_times |-> DayParts,
                       preferred_days |-> DayNames,
                       class_types |-> {},
                       max_classes_per_week |-> 5,
                       min_gap_hours |-> 1]

\* What does hold of a fresh recommender: night, Saturday and Sunday are not
\* preferred, the rest is as stated.
C18_AsConstructed ==
    pc = "input" =>
        /\ preferences.preferred_times = DayParts \ {"night"}
        /\ preferences.preferred_days = DayNames \ {"Saturday", "Sunday"}
        /\ preferences.class_types = {}
        /\ preferences.max_classes_per_week = 5
        /\ preferences.min_gap_hours = 1

\* ------------------------------------------ claims about the merger's input
\* combiner.py:338, the cleaned tables as pd.concat receives them
ConcatenatedCalendar == TagCalendar(google_clean.rows)
ConcatenatedScraped == TagScraped(web_clean.rows) \o TagScraped(cmu_clean.rows)

\* C19: every record that the merger concatenates has exactly one of
\* calendar_event and scraped_event set: the calendar cleaner's records the
\* former, the two scrape cleaners' records the latter.
C19_ExactlyOneTitle ==
    pc \in {"once", "twice"} =>
        /\ \A i \in 1..Len(ConcatenatedCalendar) :
              /\ ConcatenatedCalendar[i].calendar_event # None
              /\ ConcatenatedCalendar[i].scraped_event = None
        /\ \A i \in 1..Len(ConcatenatedScraped) :
              /\ ConcatenatedScraped[i].scraped_event # None
              /\ ConcatenatedScraped[i].calendar_event = None

\* All three cleaners returned records, one of them for a calendar entry
\* without a summary.
C19_Witness ==
    /\ pc = "once"
    /\ \E i \in 1..Len(google_df) : google_df[i].Summary = None
    /\ \E i \in 1..Len(ConcatenatedCalendar) :
          ConcatenatedCalendar[i].calendar_event = "Untitled Event"
    /\ web_clean.rows # <<>>
    /\ cmu_clean.rows # <<>>

\* --------------------------------------------- claims about the recommender
\* The candidates with the scores the scorer gives them
AllScored == WithScores(fitness_df, calendar_df, preferences)
Returned == {recommendations[i].index : i \in 1..Len(recommendations)}
LeftOut == (1..Len(fitness_df)) \ Returned
PositivelyScored == {k \in 1..Len(fitness_df) : AllScored[k].recommendation_score > 0}

\* C13: recommend_classes returns at most top_n records, each a candidate with
\* a score above 0, in non-increasing order of score, and no candidate it left
\* out scores higher than one it returned: the top_n of the positively scored.
C13_TopN ==
    pc = "recommended" =>
        /\ Len(recommendations) <= previous_call.top_n
        /\ \A i \in 1..Len(recommendations) :
              /\ recommendations[i] = AllScored[recommendations[i].index]
              /\ recommendations[i].recommendation_score > 0
        /\ \A i, j \in 1..Len(recommendations) :
              /\ i < j => recommendations[i].recommendation_score
                              >= recommendations[j].recommendation_score
              /\ i # j => recommendations[i].index # recommendations[j].index
        /\ \A k \in LeftOut : \A i \in 1..Len(recommendations) :
              AllScored[k].recommendation_score <= recommendations[i].recommendation_score
        /\ \/ Len(recommendations) = previous_call.top_n
           \/ Returned = PositivelyScored

\* Three candidates with scores above 0, the first of the table scoring
\* lowest because of a conflict, and the best two asked for.
C13_Witness ==
    /\ pc = "recommended"
    /\ previous_call.top_n = 2
    /\ Len(recommendations) = 2
    /\ Cardinality(PositivelyScored) = 3
    /\ LeftOut = {1}
    /\ recommendations[1].index = 2
    /\ recommendations[2].recommendation_score > AllScored[1].recommendation_score

\* The table's order is not the order of the scores: the ranking turned two
\* candidates around.
C13_Reordered ==
    /\ pc = "recommended"
    /\ Len(recommendations) = 2
    /\ recommendations[1].index > recommendations[2].index
    /\ recommendations[1].recommendation_score > recommendations[2].recommendation_score

\* A candidate without a score above 0 is left out although top_n has room.
C13_ZeroLeftOut ==
    /\ pc = "recommended"
    /\ Len(recommendations) < previous_call.top_n
    /\ LeftOut # {}

\* Two places of the returned schedule, the earlier accepted first, that the
\* run put in the same week.
SameWeekPairs ==
    {p \in (1..Len(optimal_schedule)) \X (1..Len(optimal_schedule)) :
        p[1] < p[2] /\ optimal_schedule[p[1]].week = optimal_schedule[p[2]].week}

GapKept(earlier, later) ==
    Abs(later.start - ScorerEffectiveEnd(earlier)) >= preferences.min_gap_hours * Hour

\* C14: of two events selected for the same week, the one accepted later
\* starts at least min_gap_hours away from the effective end of the one
\* accepted earlier: its end, or an hour after its start when it has no end.
C14_MinimumGap ==
    pc = "scheduled" =>
        \A p \in SameWeekPairs : GapKept(optimal_schedule[p[1]], optimal_schedule[p[2]])

\* What the gap check does keep: the distance from every earlier event whose
\* end is recorded, or whose table has no end column.
C14_GapFromKnownEnd ==
    pc = "scheduled" =>
        \A p \in SameWeekPairs :
            optimal_schedule[p[1]].end # NaT
                => GapKept(optimal_schedule[p[1]], optimal_schedule[p[2]])

\* A class was turned down because it starts too close to the end of one
\* selected before it.
C14_Rejected ==
    /\ pc = "scheduled"
    /\ \E w \in 1..Len(week_log) : \E k \in 1..Len(week_log[w].considered) :
          /\ \A i \in 1..Len(week_log[w].week_classes) :
                week_log[w].week_classes[i].index # week_log[w].considered[k].index
          /\ \E i \in 1..Len(week_log[w].week_classes) :
                ~GapKept(week_log[w].week_classes[i], week_log[w].considered[k])

ScheduledOverlap(e, f) ==
    e.start < ScorerEffectiveEnd(f) /\ f.start < ScorerEffectiveEnd(e)

\* C15: no two events of the returned schedule overlap, each taken from its
\* start up to its effective end.
C15_NonOverlapping ==
    pc = "scheduled" =>
        \A i, j \in 1..Len(optimal_schedule) :
            i # j => ~ScheduledOverlap(optimal_schedule[i], optimal_schedule[j])

\* A class from 10:00 to 11:00 is selected beside one from 09:00 to 12:00 of
\* the same day: it starts two hours from the other's end.
C15_InsideLongClass ==
    /\ pc = "scheduled"
    /\ \E i, j \in 1..Len(optimal_schedule) :
          /\ HasEnd(optimal_schedule[i]) /\ HasEnd(optimal_schedule[j])
          /\ optimal_schedule[i].start < optimal_schedule[j].start
          /\ optimal_schedule[j].end < optimal_schedule[i].end

\* Two classes of an hour that start at the same time are both selected: each
\* starts an hour from the other's end.
C15_SameStart ==
    /\ pc = "scheduled"
    /\ preferences.min_gap_hours = 1
    /\ \E i, j \in 1..Len(optimal_schedule) :
          /\ i # j
          /\ optimal_schedule[i].end = Absent
          /\ optimal_schedule[i].start = optimal_schedule[j].start

\* The events of the returned schedule that the run put in week w
SelectedInWeek(w) == {i \in 1..Len(optimal_schedule) : optimal_schedule[i].week = w}
ScheduledWeeks == {optimal_schedule[i].week : i \in 1..Len(optimal_schedule)}

\* The positively scored candidates of week w
WeekCandidates(w) ==
    {k \in PositivelyScored : isocalendar_week(fitness_df[k].start) = w}

\* C16: no week has more events selected than max_classes_per_week, and the
\* loop of a week looks at no further class once the week is full: the last
\* class it looked at is the one that filled the week.
C16_WeeklyMaximum ==
    pc = "scheduled" =>
        /\ \A w \in ScheduledWeeks :
              Cardinality(SelectedInWeek(w)) <= preferences.max_classes_per_week
        /\ \A n \in 1..Len(week_log) :
              /\ Len(week_log[n].week_classes) <= preferences.max_classes_per_week
              /\ Len(week_log[n].week_classes) = Cardinality(SelectedInWeek(week_log[n].week))
              /\ Len(week_log[n].week_classes) = preferences.max_classes_per_week
                    => week_log[n].considered[Len(week_log[n].considered)]
                          = week_log[n].week_classes[Len(week_log[n].week_classes)]

\* A week of three candidates is full after two; the third, which is neither
\* selected already nor too close, was not looked at.
C16_Witness ==
    /\ pc = "scheduled"
    /\ preferences.max_classes_per_week = 2
    /\ \E n \in 1..Len(week_log) :
          /\ Len(week_log[n].week_classes) = 2
          /\ Len(week_log[n].considered) = 2
          /\ \E k \in WeekCandidates(week_log[n].week) :
                /\ \A i \in 1..2 : week_log[n].week_classes[i].index # k
                /\ class_id(fitness_df[k]) \notin
                      {class_id(week_log[n].week_classes[i]) : i \in 1..2}
                /\ check_gap_requirement(fitness_df[k], week_log[n].week_classes, preferences)

\* C17: no two records of the returned schedule have the same title and
\* start, whatever the weeks and however often a candidate is in the input.
C17_NoRepeat ==
    pc = "scheduled" =>
        \A i, j \in 1..Len(optimal_schedule) :
            i # j => class_id(optimal_schedule[i]) # class_id(optimal_schedule[j])

\* The input holds a class twice; the second was looked at, is far enough
\* from every class selected, and is not in the schedule.
C17_Witness ==
    /\ pc = "scheduled"
    /\ \E n \in 1..Len(week_log) : \E k \in 1..Len(week_log[n].considered) :
          LET again == week_log[n].considered[k]
          IN /\ \E i \in 1..Len(optimal_schedule) :
                   /\ class_id(optimal_schedule[i]) = class_id(again)
                   /\ optimal_schedule[i].index # again.index
             /\ \A i \in 1..Len(optimal_schedule) : optimal_schedule[i].index # again.index
             /\ check_gap_requirement(again, week_log[n].week_classes, preferences)

\* The candidates and the commitments are, after the call, the tables given.
RankingInputsUntouched ==
    /\ fitness_df = previous_call.fitness_df
    /\ calendar_df = previous_call.calendar_df

\* C20: when recommend_classes, suggest_optimal_schedule or
\* get_schedule_insights has returned, every table it was given has the rows
\* and the columns it had before the call.
C20_InputsUntouched ==
    /\ pc \in {"recommended", "scheduled"} => RankingInputsUntouched
    /\ pc = "insights" =>
          /\ RankingInputsUntouched
          /\ insights_df.columns = previous_call.combined_df.columns
          /\ insights_df.rows = previous_call.combined_df.rows

\* What does hold: the ranking and the scheduling leave their tables alone,
\* and get_schedule_insights leaves an empty table and a table without a
\* start column alone.
C20_UntouchedExceptInsights ==
    /\ pc \in {"recommended", "scheduled"} => RankingInputsUntouched
    /\ (/\ pc = "insights"
        /\ \/ previous_call.combined_df.rows = <<>>
           \/ "start" \notin previous_call.combined_df.columns)
          => insights_df = previous_call.combined_df

\* get_schedule_insights left three more columns in the table it was given.
C20_ColumnsAdded ==
    /\ pc = "insights"
    /\ previous_call.combined_df.rows # <<>>
    /\ insights_df.columns = previous_call.combined_df.columns \cup InsightColumns
    /\ insights_df.columns # previous_call.combined_df.columns
    /\ insights.raised = FALSE

\* ------------------------------------------ claims about the conflict part
\* The commitments that overlap the candidate under the half-open test, each
\* end that is missing standing an hour after its start.
OverlappingCommitments ==
    {i \in 1..Len(calendar_df) : OverlapsCandidate(calendar_df[i])}

Scored == pc \in {"scored", "rescored"} /\ notna(event_row.start)

\* C21: the score holds a penalty of 50 for each commitment that overlaps the
\* candidate, an hour standing for every end that is missing, the
\* commitment's or the candidate's.
C21_PenaltyPerOverlap ==
    Scored => score = floored(preference_points(event_row, preferences)
                              + no_conflict_bonus(event_row, calendar_df)
                              - 50 * Cardinality(OverlappingCommitments))

\* Where every commitment has a start and an end and the candidate's end is
\* recorded or is no field of its record, the penalty is 50 for each overlap.
C21_PenaltyWithEnds ==
    (/\ Scored
     /\ event_row.end # NaT
     /\ \A i \in 1..Len(calendar_df) : notna(calendar_df[i].start) /\ notna(calendar_df[i].end))
        => conflict_penalty(event_row, calendar_df) = 50 * Cardinality(OverlappingCommitments)

\* A commitment without end at the candidate's start is not counted.
C21_EndlessCommitment ==
    /\ Scored
    /\ Len(calendar_df) = 1
    /\ calendar_df[1].start = event_row.start
    /\ calendar_df[1].end = NaT
    /\ event_row.end = Absent
    /\ conflict_penalty(event_row, calendar_df) = 0
    /\ score = preference_points(event_row, preferences) + 20

\* C22: the score holds the bonus of 20 exactly when no commitment overlaps
\* the candidate, on an empty calendar too.
C22_BonusWhenFree ==
    Scored => score = floored(preference_points(event_row, preferences)
                              + (IF OverlappingCommitments = {} THEN 20 ELSE 0)
                              - conflict_penalty(event_row, calendar_df))

\* On a calendar that is not empty, whose commitments all have a start and an
\* end, the bonus goes to exactly the candidates that overlap none of them.
C22_BonusBesideCommitments ==
    (/\ Scored
     /\ calendar_df # <<>>
     /\ event_row.end # NaT
     /\ \A i \in 1..Len(calendar_df) : notna(calendar_df[i].start) /\ notna(calendar_df[i].end))
        => no_conflict_bonus(event_row, calendar_df)
              = IF OverlappingCommitments = {} THEN 20 ELSE 0

\* A candidate scored beside an empty calendar gets no bonus.
C22_EmptyCalendar ==
    /\ Scored
    /\ calendar_df = <<>>
    /\ score = preference_points(event_row, preferences)

\* --------------------------------------- claims about the preference part
\* The day-parts as the specification words them.
DayPartOfHour(h) ==
    CASE h \in 5..11 -> "morning"
      [] h \in 12..16 -> "afternoon"
      [] h \in 17..21 -> "evening"
      [] OTHER -> "night"

\* The keywords that are in a title when the case of the letters is ignored.
KeywordsIn(title) ==
    IF title = "Yoga Flow" THEN {"yoga", "YOGA", "Yoga Flow"} ELSE {title}

NonConflictPoints ==
    LET part == DayPartOfHour(hour_of(event_row.start))
        weekday == day_name(event_row.start)
    IN (IF part \in preferences.preferred_times THEN 40 ELSE 0)
       + (IF weekday \in preferences.preferred_days THEN 30 ELSE 0)
       + (IF preferences.class_types = {} THEN 10
          ELSE IF preferences.class_types \cap KeywordsIn(event_row.scraped_event) # {}
               THEN 20 ELSE 0)
       + (IF part = "morning" THEN 10 ELSE 0)
       + (IF weekday \notin {"Saturday", "Sunday"} THEN 5 ELSE 0)

\* C23: the day-parts are morning 5-11, afternoon 12-16, evening 17-21 and
\* night otherwise, and the score of a candidate with a start is, beside the
\* conflict part, 40 for a preferred day-part, 30 for a preferred weekday, 20
\* for a class-type keyword found in the title whatever the case (0 when none
\* of a non-empty list is found, 10 when the list is empty), 10 for a morning
\* and 5 for Monday to Friday.
C23_NonConflictPoints ==
    /\ \A h \in 0..23 : get_time_of_day(h) = DayPartOfHour(h)
    /\ Scored => score = floored(NonConflictPoints
                                  + no_conflict_bonus(event_row, calendar_df)
                                  - conflict_penalty(event_row, calendar_df))

\* "Yoga Flow" on Monday 09:00 under the keywords spin and YOGA and the
\* days Saturday and Sunday, no commitments: 40 + 0 + 20 + 10 + 5.
C23_Witness ==
    /\ pc = "scored"
    /\ event_row.start = 9 * Hour
    /\ event_row.scraped_event = "Yoga Flow"
    /\ preferences.class_types = {"spin", "YOGA"}
    /\ preferences.preferred_days = {"Saturday", "Sunday"}
    /\ preferences.preferred_times = {"morning", "afternoon", "evening"}
    /\ calendar_df = <<>>
    /\ score = 75

\* A keyword list that is not empty and matches nothing gives no class-type
\* points: "HIIT" on Saturday 13:00 under the keyword yoga.
C23_UnmatchedWitness ==
    /\ pc = "scored"
    /\ event_row.start = 5 * Day + 13 * Hour
    /\ event_row.scraped_event = "HIIT"
    /\ preferences.class_types = {"yoga"}
    /\ preferences.preferred_days = {"Saturday", "Sunday"}
    /\ preferences.preferred_times = {"morning", "afternoon", "evening"}
    /\ calendar_df = <<>>
    /\ score = 70

\* ------------------------------------------ claims about the weekly steps
\* The dates of the term on the definition's weekday whose step does not fail:
\* neither local time is one that the spring-forward transition skips.
StepsThatWork(row) ==
    {d \in ExpectedDates(row) :
        ~InGap(d, row.start_time_local) /\ ~InGap(d, row.end_time_local)}

OccurrenceDates(occ) == {occ[i].occurrence_date : i \in 1..Len(occ)}

\* C24: a weekly step that fails is skipped and the loop goes on, so the
\* definition yields the occurrences of all its other dates: one failing
\* step never leaves it with none.
C24_FailingStepSkipped ==
    (pc = "expanded" /\ Expandable(cmu_df[1]))
        => OccurrenceDates(occurrences) = StepsThatWork(cmu_df[1])

\* A Sunday 02:30 class over a term that holds the spring-forward Sunday and
\* another Sunday yields nothing.
C24_AllLost ==
    /\ pc = "expanded"
    /\ Expandable(cmu_df[1])
    /\ ExpectedDates(cmu_df[1]) \ StepsThatWork(cmu_df[1]) # {}
    /\ StepsThatWork(cmu_df[1]) # {}
    /\ occurrences = <<>>

\* --------------------------------------- claims about the preference setter
PreferenceFields ==
    {"preferred_times", "preferred_days", "class_types", "max_classes_per_week",
     "min_gap_hours"}

\* set_preferences returned; the recommender was as constructed before.
PreferencesSet == pc = "configured" /\ DOMAIN previous_call = PreferenceFields

\* C29: set_preferences sets exactly the fields it is given, to the values
\* given, 0 and the empty list included, and leaves the other fields as they
\* were.
C29_ExactlyTheGiven ==
    PreferencesSet =>
        \A f \in PreferenceFields :
            preferences[f] = IF Given(previous_call[f]) THEN previous_call[f][1]
                             ELSE DefaultPreferences[f]

\* The same for the values that are neither 0 nor an empty list.
C29_TruthyGiven ==
    PreferencesSet =>
        \A f \in PreferenceFields :
            (\/ ~Given(previous_call[f])
             \/ IF f \in {"max_classes_per_week", "min_gap_hours"}
                   THEN previous_call[f][1] # 0 ELSE previous_call[f][1] # {}) =>
                preferences[f] = IF Given(previous_call[f]) THEN previous_call[f][1]
                                 ELSE DefaultPreferences[f]

\* A gap of 0 hours is asked for and the gap of 1 hour stays.
C29_ZeroGapIgnored ==
    /\ PreferencesSet
    /\ previous_call.min_gap_hours = <<0>>
    /\ previous_call.max_classes_per_week = <<2>>
    /\ preferences.min_gap_hours = 1
    /\ preferences.max_classes_per_week = 2

\* An empty list of day-parts is given and the three of the constructor stay.
C29_EmptyListIgnored ==
    /\ PreferencesSet
    /\ previous_call.preferred_times = <<{}>>
    /\ preferences.preferred_times = {"morning", "afternoon", "evening"}

\* ------------------------------------------------ claims about the insights
\* The starts of the events of the table get_schedule_insights was given.
TimelineStarts ==
    {CombinedTable.rows[i].start : i \in 1..Len(CombinedTable.rows)} \ {NaT}

MorningStarts == {t \in TimelineStarts : DayPartOfHour(hour_of(t)) = "morning"}

NoMorningEmitted ==
    \E i \in 1..Len(insights.recommendations) : insights.recommendations[i] = "no morning"

\* C27: get_schedule_insights says "no morning activities" exactly when the
\* timeline is not empty and none of its events starts in the morning, the
\* hours 5 to 11 of the scorer.
C27_NoMorningActivities ==
    pc = "insights" =>
        (NoMorningEmitted <=> (CombinedTable.rows # <<>> /\ MorningStarts = {}))

\* What the code does: given a table with a start column in which some start
\* is there, it says so exactly when no event starts in the hours 6 to 11.
C27_SixToEleven ==
    (/\ pc = "insights"
     /\ "start" \in previous_call.combined_df.columns
     /\ TimelineStarts # {})
        => (NoMorningEmitted <=> \A t \in TimelineStarts : hour_of(t) \notin 6..11)

\* One class on Monday 05:00, a morning for the scorer: "no morning".
C27_FiveOClock ==
    /\ pc = "insights"
    /\ "start" \in previous_call.combined_df.columns
    /\ TimelineStarts = {5 * Hour}
    /\ NoMorningEmitted
    /\ calculate_fitness_score(fitness_df[1], calendar_df, preferences) = 95

\* A timeline without morning events in the shape standardize_and_combine
\* returns it, without start column: nothing is said.
C27_WithoutStartColumn ==
    /\ pc = "insights"
    /\ "start" \notin previous_call.combined_df.columns
    /\ CombinedTable.rows # <<>>
    /\ MorningStarts = {}
    /\ insights.recommendations = <<>>

\* ----------------------------------- claims about the timeline as an input
TimelineReturned == pc \in {"once", "twice"}

\* The score the app's recommender gives the i-th record of the timeline.  A
\* calendar sliced from the timeline has no start column, so the conflict
\* branch is skipped as it is for an empty calendar.
TimelineScore(i) == calculate_fitness_score(timeline[i], <<>>, DefaultPreferences)

\* C28: every record of the timeline standardize_and_combine returns has the
\* start and the end of the record it was made from, so a candidate taken from
\* the timeline, on a preferred day-part and weekday and free of conflicts,
\* gets a positive score.
C28_TimelineKeepsStart ==
    TimelineReturned =>
        \A i \in 1..Len(timeline) :
            /\ "start" \in DOMAIN timeline[i]
            /\ "end" \in DOMAIN timeline[i]
            /\ timeline[i].start = final_df[i].start
            /\ timeline[i].end = final_df[i].end
            /\ timeline[i].scraped_event # None => TimelineScore(i) > 0

\* The records of the timeline are those of the resolver, in its order, with
\* the display string and the two title columns.
C28_TimelineColumns ==
    TimelineReturned =>
        /\ Len(timeline) = Len(final_df)
        /\ \A i \in 1..Len(timeline) :
              /\ DOMAIN timeline[i] = {"time_range", "scraped_event", "calendar_event"}
              /\ timeline[i].time_range =
                    create_time_range_display(final_df[i].start, final_df[i].end)

\* A candidate of Monday afternoon is in the timeline, free of conflicts, and
\* scores 0 from the timeline and 85 from the resolver's record.
C28_CandidateScoresZero ==
    /\ TimelineReturned
    /\ \E i \in 1..Len(timeline) :
          /\ timeline[i].scraped_event # None
          /\ TimelineScore(i) = 0
          /\ calculate_fitness_score(final_df[i], <<>>, DefaultPreferences) = 85

\* --------------------------------------- claims about the resolver's records
RecordFields == {"start", "end", "calendar_event", "scraped_event", "time_range"}

RecordsOf(df) == {df[i] : i \in 1..Len(df)}

\* A record of the input that the resolver has to keep: a fixed record, or a
\* candidate that overlaps no fixed record of the input.
ToKeep(r) ==
    \/ r.calendar_event # None
    \/ \A f \in Fixed(combined_df) : ~HalfOpenOverlap(combined_df[f], r)

\* C30: the resolver's output holds the fixed records of its input and the
\* candidates that overlap none of them, each as often as it entered and with
\* every field as it was, a missing end still missing, and nothing else: no
\* record that was not in the input, no column for the filled end.
C30_RecordsUnchanged ==
    Merged =>
        /\ \A i \in 1..Len(final_df) : DOMAIN final_df[i] = RecordFields
        /\ RecordsOf(final_df) \subseteq RecordsOf(combined_df)
        /\ \A r \in RecordsOf(combined_df) :
              Count(final_df, r) = IF ToKeep(r) THEN Count(combined_df, r) ELSE 0

\* A fixed record and a candidate, both without end, come out without end
\* after the filled ends made the resolver drop another candidate.
C30_Witness ==
    /\ Merged
    /\ Len(final_df) < Len(combined_df)
    /\ \E f \in Fixed(final_df), c \in Candidates(final_df) :
          /\ final_df[f].end = NaT
          /\ final_df[c].end = NaT
    /\ \E c \in Candidates(combined_df), f \in Fixed(combined_df) :
          /\ combined_df[f].end = NaT
          /\ ~Before(combined_df[c].start, combined_df[f].end)
          /\ HalfOpenOverlap(combined_df[f], combined_df[c])

\* The same record twice among the candidates, kept twice.
C30_KeptTwice ==
    /\ Merged
    /\ Fixed(combined_df) # {}
    /\ \E c \in Candidates(final_df) : Count(final_df, final_df[c]) = 2

\* --------------------------- claims about the natural-language date texts
NaturalRows == {i \in 1..Len(web_df) : web_df[i].date_time.shape = "natural"}

\* The display string of the record the event-listing cleaner makes of a row.
DisplayOf(row) == create_time_range_display(WebRecordOf(row).start, WebRecordOf(row).end)

\* C25: the clock times written in a natural-language text are read as
\* Eastern local time, so the display string of the record shows them as
\* they were written.
C25_WrittenClockShown ==
    pc = "web" =>
        \A i \in NaturalRows :
            web_df[i].date_time.first # NaT =>
                /\ \E k \in 1..Len(web_clean.rows) :
                       web_clean.rows[k] = WebRecordOf(web_df[i])
                /\ DisplayOf(web_df[i])
                      = <<web_df[i].date_time.first, web_df[i].date_time.second>>

\* What the code does: the record's start is the instant at which the UTC
\* clock shows the time written, so the display shows it moved by the
\* Eastern offset.
C25_ReadAsUtc ==
    pc = "web" =>
        \A i \in NaturalRows :
            (web_df[i].date_time.first # NaT /\ web_df[i].date_time.year # "other") =>
                /\ WebRecordOf(web_df[i]).start = web_df[i].date_time.first
                /\ DisplayOf(web_df[i])[1] = web_df[i].date_time.first - EST

\* "00:30 - 01:30" of a Monday is kept and shown as 19:30 - 20:30 of the day
\* before.
C25_ShownFiveHoursEarly ==
    /\ pc = "web"
    /\ Len(web_df) = 1
    /\ web_df[1].date_time = [shape |-> "natural", first |-> 1, second |-> 3, year |-> "none"]
    /\ Len(web_clean.rows) = 1
    /\ web_clean.rows[1].start = 1
    /\ DisplayOf(web_df[1]) = <<1 - 5 * Hour, 3 - 5 * Hour>>

\* C26: the year of processing is appended to the date exactly when the date
\* names no year; a date that names a year, this one or another, is read with
\* the year it names and yields its record.
C26_YearAppendedWhenOmitted ==
    pc = "web" =>
        \A i \in NaturalRows :
            /\ year_appended(web_df[i].date_time) <=> web_df[i].date_time.year = "none"
            /\ (web_df[i].date_time.first # NaT /\ web_df[i].date_time.year # "none") =>
                   \E k \in 1..Len(web_clean.rows) :
                       web_clean.rows[k] = WebRecordOf(web_df[i])

\* What the code does: the year is appended unless the date holds the digits
\* of the year of processing, and a readable text of the year of processing or
\* of no year yields its record.
C26_AppendedUnlessCurrent ==
    pc = "web" =>
        \A i \in NaturalRows :
            /\ year_appended(web_df[i].date_time) <=> web_df[i].date_time.year # "current"
            /\ (web_df[i].date_time.first # NaT /\ web_df[i].date_time.year # "other") =>
                   \E k \in 1..Len(web_clean.rows) :
                       web_clean.rows[k] = WebRecordOf(web_df[i])

\* A readable text whose date names another year yields no record.
C26_OtherYearLost ==
    /\ pc = "web"
    /\ Len(web_df) = 1
    /\ web_df[1].date_time = [shape |-> "natural", first |-> 1, second |-> 3, year |-> "other"]
    /\ web_clean.rows = <<>>

====
